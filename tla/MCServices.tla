----------------------------- MODULE MCServices -----------------------------
(***************************************************************************)
(* Services with small sets, and with the bounds of each scene.            *)
(***************************************************************************)
EXTENDS Services, TLC

CONSTANTS res, p1, p2, p3, x1, x2, x3, x4, a1, call, mail, key, h1, h2, r1, r2, r3, MaxByApi

\* What the extractor proposes: two corrections of one preference, a statement of
\* it that corrects nothing, and an episode, which counts when its plan was
\* completed.
Stated(x) == [kind |-> "SEMANTIC", content |-> x, key |-> key, correction |-> TRUE,
              confirmed |-> x = call, bounded |-> FALSE, completedPlan |-> FALSE]
Mentioned == [Stated(mail) EXCEPT !.correction = FALSE, !.confirmed = TRUE]
Episode == [kind |-> "EPISODIC", content |-> call, key |-> NoPreference, correction |-> FALSE,
            confirmed |-> TRUE, bounded |-> TRUE, completedPlan |-> TRUE]
MCCandidate == {Stated(call), Stated(mail), Mentioned, Episode}

For(u, p) == [by |-> u, params |-> p]
MCIssued == (x1 :> For(res, p1)) @@ (x2 :> For(res, p1)) @@ (x3 :> For(res, p2)) @@ (x4 :> For(res, p3))
            @@ (a1 :> For(res, p1))

\* What the markers make of "what about ...", "again", "no, ...", "report ...",
\* "inspect ..." and their like.
MCText == {{}, {"contextual"}, {"retry", "contextual"}, {"correct", "contextual"}, {"correct"},
           {"recall", "contextual"}, {"visit"}, {"report", "contextual"}, {"inspect"},
           {"revise"}, {"adopt", "contextual"}}

\* Two receipts of one report, one of another.
MCReceipts == (r1 :> h1) @@ (r2 :> h1) @@ (r3 :> h2)

\* The conversations are named like the threads and the houses like the sources,
\* none of which meet in a scene, so that they are permuted together.
Symmetry == Permutations(Thread) \cup Permutations(Source) \cup Permutations(Action)

\* What the memory records are about, those under way included, and those of the API.
Under(op) == {t \in Thread : part3[t].op = op}
About == {part1[i].key : i \in Mem!Rows} \cup {part3[t].key : t \in Under("CREATE")}
         \cup {part3[t].cand.key : t \in Under("PERSIST")}
ByApi == Cardinality({i \in Mem!Rows : part1[i].source = Api}) + Cardinality(Under("CREATE"))

\* Statements of the preference that correct nothing.
Uncorrected == Cardinality({i \in Mem!Rows : part1[i].key = key /\ ~part1[i].corrects})
               + Cardinality({t \in Under("PERSIST") : part3[t].cand = Mentioned})

\* Two conversations on the screen with nothing else going wrong, or one in which
\* something does: a card expires, a binding is revoked, a conversation is closed.
Headed == {c \in Conversation : part2[c] # NoHead}
Disturbed == Cardinality({c \in Headed : part1[c] = "CLOSED" \/ (part2[c].open /\ ~part2[c].fresh)})
             + Cardinality(House \ part3)
Screens == /\ Cardinality({part2[c].house : c \in Headed}
                           \cup ({r.house : r \in part6} \ {NoHouse})) <= 1
           /\ \A c \in Headed : /\ ~part2[c].failed /\ ~part2[c].asks
                                /\ part2[c].kind # "announcement"
OneScreen == \A t \in Tab : part5'[t].active = part5[t].active

Bounds ==
    /\ scene \in {"preference", "episode"} => ByApi' + Uncorrected' <= MaxByApi
    /\ scene = "preference" => NoPreference \notin About'
    /\ scene = "episode" => About' \subseteq {NoPreference}
    /\ scene = "screens" => Disturbed' = 0 /\ Screens'
    /\ scene = "dialogue" => Disturbed' <= 1 /\ OneScreen

MCNext == ServicesNext /\ Bounds

MCSpec == ServicesInit /\ [][MCNext]_servicesVars
=============================================================================
