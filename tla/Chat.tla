-------------------------------- MODULE Chat --------------------------------
(***************************************************************************)
(* The home page and the conversations behind it.  A tab shows one         *)
(* conversation at a time and lets the user leave it while an answer is on *)
(* its way; a message continues, corrects or repeats what the conversation *)
(* was about; a confirmation names the action it was shown by the hash of  *)
(* its parameters only.  The server handles one request in one step here:  *)
(* what turns of one conversation do to each other is AgentTurn's subject. *)
(***************************************************************************)
EXTENDS Naturals, FiniteSets

CONSTANTS Tab, Conversation, House,
          Action, NoAction,     \* parameters of a write; two conversations may propose the same
          Text,                 \* what a message says, as the set of the markers found in it
          Kind,                 \* what a conversation may be about; a filed repair has its number
          NoHead, NoHouse, MaxRequests

Marker == {"contextual", "retry", "correct", "recall", "visit", "report", "inspect", "revise", "adopt"}

ChatAssumption ==
    /\ Text \subseteq SUBSET Marker
    /\ Kind \subseteq {"general", "repair", "filed", "announcement", "inspection"}
    /\ NoAction \notin Action /\ NoHouse \notin House /\ MaxRequests \in Nat

VARIABLES
    status,      \* agent_conversations: "NONE", "ACTIVE" or "CLOSED"
    head,        \* the state each conversation accepted last
    bound,       \* the houses of the account
    raised,      \* how many actions were proposed
    page,        \* what each tab shows
    requests,    \* messages and decisions on their way, or answered and not yet received
    asked,       \* how many requests were sent
    written      \* the writes that were executed, with the card that was confirmed
chatVars == <<status, head, bound, raised, page, requests, asked, written>>

\* An action that was proposed, as the nth of all; or none.
NoCard == [action |-> NoAction, nth |-> 0]
Card == [action : Action \cup {NoAction}, nth : Nat]

\* A new state in which nothing waits.
Settled(h, k, from) == [house |-> h, kind |-> k, from |-> from, card |-> NoCard, open |-> FALSE,
                        fresh |-> FALSE, asks |-> FALSE, failed |-> FALSE]
\* An action waits for its confirmation.
Waiting(s, a) == [s EXCEPT !.card = [action |-> a, nth |-> raised + 1], !.open = TRUE, !.fresh = TRUE]

-----------------------------------------------------------------------------
(* The server: what a message means in the light of the state before it.   *)

Corrected(prev, text) ==
    "report" \in text \/ ("correct" \in text /\ prev.kind \in {"repair", "filed", "inspection"})

SlotContinuation(prev) == prev.asks /\ prev.card = NoCard
FailedTurnRetry(prev, text) == prev.failed /\ "retry" \in text
ContextualFollowup(prev, text) ==
    (prev.card = NoCard \/ Corrected(prev, text)) /\ "contextual" \in text
AnnouncementFollowup(prev, text) == prev.kind = "announcement" /\ text \cap {"adopt", "revise"} # {}
RepairFollowup(prev, text) == prev.kind = "filed" /\ text \cap {"visit", "correct", "recall"} # {}

\* Mutant: what was said of one house is carried to the next.
SameHouseOrNot(prev, h) == TRUE
SameHouse(prev, h) == prev.house = h

\* What the message is answered with takes the slots of the state before.
CarriesOn(prev, h, text) ==
    \/ SameHouse(prev, h) /\ (\/ SlotContinuation(prev) \/ FailedTurnRetry(prev, text)
                              \/ ContextualFollowup(prev, text))
    \/ AnnouncementFollowup(prev, text)
Continuing(prev, h, text) == CarriesOn(prev, h, text) \/ "inspect" \in text

Represents(prev, h, text) == prev # NoHead /\ prev.card # NoCard /\ ~Continuing(prev, h, text)
Recalls(prev, h, text) ==
    prev # NoHead /\ ~Represents(prev, h, text) /\ RepairFollowup(prev, text)

\* The houses in which the slots of an answer of kind k were stated.
StatedIn(prev, h, text, k) ==
    {h} \cup IF prev # NoHead /\ CarriesOn(prev, h, text)
                /\ (prev.kind = "announcement") = (k = "announcement")
             THEN prev.from ELSE {}

\* The states a graph run may start from.
Starts(prev, h) ==
    {Settled(h, k, StatedIn(prev, h, text, k)) : k \in Kind,
        text \in {x \in Text : ~Represents(prev, h, x) /\ ~Recalls(prev, h, x)}}

\* The states a graph run may end in: done, with a question, out of budget, or
\* waiting for a confirmation.
Answers(s) == {s, [s EXCEPT !.asks = TRUE], [s EXCEPT !.failed = TRUE]}
              \cup (IF s.kind = "general" THEN {} ELSE {Waiting(s, a) : a \in Action})

\* The answer is kept for a tab that still waits for it.
Reply(r, answer, card) ==
    requests' = (requests \ {r}) \cup
                (IF r.awaited THEN {[r EXCEPT !.reply = answer, !.card = card]} ELSE {})

Pending(r) == r \in requests /\ r.reply = "NONE"
Refused(r) == Reply(r, "ERROR", NoCard) /\ UNCHANGED <<status, head, raised, written>>

\* The accepted state of a run that goes on from s.
Accept(r, s, answer) ==
    \E next \in Answers(s) :
       /\ head' = [head EXCEPT ![r.conv] = next]
       /\ raised' = IF next.open THEN raised + 1 ELSE raised
       /\ Reply(r, answer, IF next.open THEN next.card ELSE NoCard)

Begin(c) == status' = [status EXCEPT ![c] = "ACTIVE"]

\* A message is answered with the action that waits, with a word on the work
\* order that was filed, or by a run of the graph.
SendMessage(r) ==
    /\ Pending(r) /\ r.kind = "SAY"
    /\ UNCHANGED <<bound, page, asked>>
    /\ \/ Refused(r)
       \/ /\ r.house \in bound /\ status[r.conv] # "CLOSED"
          /\ UNCHANGED written
          /\ Begin(r.conv)
          /\ LET prev == head[r.conv] IN
             \/ /\ \E text \in Text : Represents(prev, r.house, text)
                /\ Reply(r, "TURN", prev.card) /\ UNCHANGED <<head, raised>>
             \/ /\ \E text \in Text : Recalls(prev, r.house, text)
                /\ Reply(r, "TURN", NoCard) /\ UNCHANGED <<head, raised>>
             \/ \E s \in Starts(prev, r.house) : Accept(r, s, "TURN")

\* Mutant: the hash of what is confirmed is not compared.
RestorableUnseen(r) ==
    /\ status[r.conv] = "ACTIVE" /\ head[r.conv] # NoHead
    /\ head[r.conv].house \in bound
    /\ head[r.conv].open /\ head[r.conv].fresh

\* The gates in front of a confirmation or a cancellation.
Restorable(r) ==
    /\ status[r.conv] = "ACTIVE" /\ head[r.conv] # NoHead
    /\ head[r.conv].house \in bound
    /\ head[r.conv].open /\ head[r.conv].fresh
    /\ r.card.action = head[r.conv].card.action

\* A refusal voids what waits when the house is no longer bound, and when the
\* action is open and was proposed too long ago.
Voids(r) ==
    /\ status[r.conv] = "ACTIVE" /\ head[r.conv] # NoHead
    /\ \/ head[r.conv].house \notin bound
       \/ head[r.conv].open /\ ~head[r.conv].fresh

Void(s) == [s EXCEPT !.card = NoCard, !.open = FALSE]

Refuse(r) ==
    /\ Pending(r) /\ r.kind # "SAY" /\ ~Restorable(r)
    /\ Reply(r, "ERROR", NoCard)
    /\ head' = IF Voids(r) THEN [head EXCEPT ![r.conv] = Void(@)] ELSE head
    /\ UNCHANGED <<status, bound, raised, page, asked, written>>

\* The write is executed; or the service refuses it, or the run ends before it for
\* its budget or a memory it rests on: the action then stays in the state, although
\* nothing waits for it, unless a later step of the plan replaces or clears it.
Execute(r) ==
    /\ Pending(r) /\ r.kind = "CONFIRM" /\ Restorable(r)
    /\ UNCHANGED <<status, bound, page, asked>>
    /\ LET s == head[r.conv]
           before == Cardinality({w \in written : w.card = s.card})
       IN \/ /\ written' = written \cup {[shown |-> r.card, card |-> s.card, times |-> before + 1]}
             /\ Accept(r, [Void(s) EXCEPT !.kind = IF @ = "repair" THEN "filed" ELSE @], "OK")
          \/ /\ UNCHANGED written
             /\ Accept(r, [s EXCEPT !.open = FALSE], "OK") \/ Accept(r, Void(s), "OK")
          \/ Refused(r)

Cancel(r) ==
    /\ Pending(r) /\ r.kind = "CANCEL" /\ Restorable(r)
    /\ UNCHANGED <<status, bound, page, asked, written>>
    /\ Accept(r, Void(head[r.conv]), "OK")

\* Five minutes pass; a binding is revoked; a conversation is closed.
Expire(c) ==
    /\ head[c] # NoHead /\ head[c].open /\ head[c].fresh
    /\ head' = [head EXCEPT ![c].fresh = FALSE]
    /\ UNCHANGED <<status, bound, raised, page, requests, asked, written>>
Revoke(h) ==
    /\ h \in bound /\ bound' = bound \ {h}
    /\ UNCHANGED <<status, head, raised, page, requests, asked, written>>
Close(c) ==
    /\ status[c] = "ACTIVE" /\ status' = [status EXCEPT ![c] = "CLOSED"]
    /\ UNCHANGED <<head, bound, raised, page, requests, asked, written>>

-----------------------------------------------------------------------------
(* The browser.                                                            *)

Awaits(t, kinds) == \E r \in requests : r.tab = t /\ r.awaited /\ r.kind \in kinds
NewId == CHOOSE i \in 1 .. MaxRequests : \A r \in requests : r.id # i
Ask(t, kind, h, card) ==
    /\ asked < MaxRequests /\ asked' = asked + 1
    /\ requests' = requests \cup {[id |-> NewId, tab |-> t, kind |-> kind, conv |-> page[t].active,
                                   house |-> h, card |-> card, awaited |-> TRUE,
                                   reply |-> "NONE"]}

\* sendAgent: one message at a time, sent to the conversation that is shown for
\* the house that is selected.
Say(t) ==
    /\ ~Awaits(t, {"SAY"})
    /\ \E h \in bound : Ask(t, "SAY", h, NoCard)
    /\ UNCHANGED <<status, head, bound, raised, page, written>>

\* The dialog: the action that was shown is decided in the conversation that is
\* shown now.  Its buttons are disabled while it confirms.
Decide(t, kind) ==
    /\ page[t].dialog # NoCard /\ ~Awaits(t, {"CONFIRM"})
    /\ Ask(t, kind, NoHouse, page[t].dialog)
    /\ UNCHANGED <<status, head, bound, raised, page, written>>

\* A message's answer replaces the dialog, a decision's answer closes it, an
\* error leaves it as it is, whatever the tab shows by then.
Receive(t, r) ==
    /\ r \in requests /\ r.tab = t /\ r.awaited /\ r.reply # "NONE"
    /\ requests' = requests \ {r}
    /\ page' = CASE r.reply = "ERROR" -> page
                 [] r.reply = "OK" -> [page EXCEPT ![t].dialog = NoCard]
                 [] OTHER -> [page EXCEPT ![t].dialog = r.card]
    /\ UNCHANGED <<status, head, bound, raised, asked, written>>

\* The tab stops waiting, for a timeout or a broken connection; the server does not.
GiveUp(t, r) ==
    /\ Pending(r) /\ r.tab = t /\ r.awaited
    /\ requests' = (requests \ {r}) \cup {[r EXCEPT !.awaited = FALSE]}
    /\ UNCHANGED <<status, head, bound, raised, page, asked, written>>

\* Showing another conversation starts to load it and drops the load of the one
\* before.
Open(t, c, dialog) ==
    page' = [page EXCEPT ![t].active = c, ![t].dialog = dialog,
                         ![t].load = "ASKED", ![t].loaded = NoCard]
Unused == {c \in Conversation : status[c] = "NONE" /\ \A t \in Tab : page[t].active # c}

SelectConversation(t, c) ==
    /\ status[c] # "NONE" /\ page[t].active # c
    /\ Open(t, c, page[t].dialog)
    /\ UNCHANGED <<status, head, bound, raised, requests, asked, written>>
StartNewConversation(t) ==
    /\ \E c \in Unused : Open(t, c, NoCard)
    /\ UNCHANGED <<status, head, bound, raised, requests, asked, written>>

\* The load reads the state now and shows it later.  A conversation that does not
\* exist yet or is closed is replaced by a new one.
AnswerLoad(t) ==
    /\ page[t].load = "ASKED"
    /\ LET c == page[t].active
       IN page' = [page EXCEPT ![t].load = IF status[c] = "ACTIVE" THEN "READY" ELSE "GONE",
                               ![t].loaded = IF head[c] # NoHead /\ head[c].open
                                             THEN head[c].card ELSE NoCard]
    /\ UNCHANGED <<status, head, bound, raised, requests, asked, written>>
ShowLoad(t) ==
    /\ \/ /\ page[t].load = "READY"
          /\ page' = [page EXCEPT ![t].dialog = page[t].loaded, ![t].load = "NO",
                                  ![t].loaded = NoCard]
       \/ /\ page[t].load = "GONE"
          /\ \E c \in Unused :
                page' = [page EXCEPT ![t].active = c, ![t].dialog = NoCard,
                                     ![t].load = "NO", ![t].loaded = NoCard]
    /\ UNCHANGED <<status, head, bound, raised, requests, asked, written>>

\* The page is opened again: it loads the stored conversation, and nobody waits
\* for the requests of the page before.
Reload(t) ==
    /\ Open(t, page[t].active, NoCard)
    /\ requests' = {r \in requests : r.tab # t}
                   \cup {[r EXCEPT !.awaited = FALSE] : r \in {q \in requests : q.tab = t /\ q.reply = "NONE"}}
    /\ UNCHANGED <<status, head, bound, raised, asked, written>>

-----------------------------------------------------------------------------
ChatInit ==
    /\ status = [c \in Conversation |-> "NONE"] /\ head = [c \in Conversation |-> NoHead]
    /\ bound = House /\ raised = 0 /\ requests = {} /\ asked = 0 /\ written = {}
    /\ page \in [Tab -> [active : Conversation, dialog : {NoCard},
                         load : {"NO"}, loaded : {NoCard}]]

ChatNext ==
    \/ \E r \in requests : SendMessage(r) \/ Refuse(r) \/ Execute(r) \/ Cancel(r)
    \/ \E c \in Conversation : Expire(c) \/ Close(c)
    \/ \E h \in House : Revoke(h)
    \/ \E t \in Tab :
          \/ Say(t) \/ Decide(t, "CONFIRM") \/ Decide(t, "CANCEL")
          \/ \E r \in requests : Receive(t, r) \/ GiveUp(t, r)
          \/ \E c \in Conversation : SelectConversation(t, c)
          \/ StartNewConversation(t) \/ AnswerLoad(t) \/ ShowLoad(t) \/ Reload(t)

-----------------------------------------------------------------------------
(* Every write that is executed has the parameters of the dialog that was  *)
(* confirmed, and no proposal is executed twice, although answers arrive   *)
(* in a tab that shows another conversation by then, loads are overtaken   *)
(* and a request that nobody waits for is still handled                    *)
(* (recovery.restore, HomePage.resolveConfirmation).                       *)
ConfirmedAsShown ==
    \A w \in written : w.shown.action = w.card.action /\ w.times = 1

(* What a conversation knows about a repair was said about the house the   *)
(* repair is for: a message under another house starts afresh, unless it   *)
(* goes on with an announcement (domain_continuation._build_continuation). *)
SlotsStayInTheirHouse ==
    \A c \in Conversation :
       head[c] # NoHead /\ head[c].kind \in {"repair", "filed"} => head[c].from = {head[c].house}

\* The inductive invariant.  A proposal is open in one conversation at most and
\* never again once it was executed; what is not about an announcement rests on
\* its own house.
Head == [house : House, kind : Kind \cup {"filed"}, from : SUBSET House, card : Card,
         open : BOOLEAN, fresh : BOOLEAN, asks : BOOLEAN, failed : BOOLEAN]
Request(i) == [id : {i}, tab : Tab, kind : {"SAY", "CONFIRM", "CANCEL"}, conv : Conversation,
               house : House \cup {NoHouse}, card : Card, awaited : BOOLEAN,
               reply : {"NONE", "ERROR", "OK", "TURN"}]
ChatTypeOK ==
    /\ status \in [Conversation -> {"NONE", "ACTIVE", "CLOSED"}]
    /\ head \in [Conversation -> {NoHead} \cup Head]
    /\ bound \subseteq House /\ raised \in Nat /\ asked \in Nat
    /\ page \in [Tab -> [active : Conversation, dialog : Card,
                         load : {"NO", "ASKED", "READY", "GONE"}, loaded : Card]]
    /\ \A r \in requests : r \in Request(r.id)
    /\ written \subseteq [shown : Card, card : Card, times : Nat]
HasOpen(c) == head[c] # NoHead /\ head[c].open
ChatInv ==
    /\ ChatTypeOK
    /\ ConfirmedAsShown
    /\ \A c \in Conversation : HasOpen(c) =>
          /\ head[c].card.nth \in 1..raised
          /\ \A d \in Conversation \ {c} : HasOpen(d) => head[d].card.nth # head[c].card.nth
          /\ \A w \in written : w.card.nth # head[c].card.nth
    /\ \A w \in written : w.card.nth <= raised
    /\ \A c \in Conversation :
          head[c] # NoHead /\ head[c].kind # "announcement" => head[c].from = {head[c].house}
=============================================================================
