--------------------------- MODULE ServicesProofs ---------------------------
(***************************************************************************)
(* What the smaller services promise, for every value of the constants.    *)
(*                                                                         *)
(* A scene never changes and leaves its parts to one component, whose      *)
(* inductive invariant (in its own module) holds there.  The arguments:    *)
(*   MemoryIndex: what an update in flight will write is what the record   *)
(*     says, until a second one overtakes it.                              *)
(*   MessageCenter: the claim on a key is a lock; its record is written    *)
(*     by the one who holds it, with the answer that is given.             *)
(*   Handover: so is a token; a key with a ticket has a record, and a      *)
(*     request that found none has seen no ticket of its key.              *)
(*   Chat: a proposal is open in one conversation at most, and never again *)
(*     once it was executed.                                               *)
(*   Stream: the end of a turn is the last that is put, and what is put is *)
(*     sent or still waits, unless the client has left.                    *)
(*   Consultation: a copy that is not outdated is the row itself, so that  *)
(*     the audit grows by a step of the state machine; a consumed token is *)
(*     of one draft, and unspent until its commit.                         *)
(*   Memory: what a transaction is going to supersede is active and its    *)
(*     own; no other one states what it is about to state.                 *)
(*   LoginGuard: who has loaded the row has it locked, and not yet at the  *)
(*     limit; what is counted and the attempts that began without a row    *)
(*     stay below a sum.                                                   *)
(*   Confirmation: an approval that was let through is for one             *)
(*     confirmation, which consumes it with its one write.                 *)
(***************************************************************************)
EXTENDS Services, SequenceTheorems, FiniteSetTheorems, WellFoundedInduction, TLAPS

-----------------------------------------------------------------------------
(* The components count with operators of their own instances; these are   *)
(* the ones of FiniteSets.                                                 *)

\* How they count.
LEMMA SameCardinality ==
  ASSUME NEW S
  PROVE  /\ Ms!Cardinality(S) = Cardinality(S) /\ Ho!Cardinality(S) = Cardinality(S)
         /\ Cs!Cardinality(S) = Cardinality(S) /\ Mem!Cardinality(S) = Cardinality(S)
         /\ Ct!Cardinality(S) = Cardinality(S) /\ Lg!Cardinality(S) = Cardinality(S)
BY DEF Cardinality, Ms!Cardinality, Ho!Cardinality, Cs!Cardinality, Mem!Cardinality,
       Ct!Cardinality, Lg!Cardinality

\* What they call finite.
LEMMA SameFinite ==
  ASSUME NEW S
  PROVE  (Ms!IsFiniteSet(S) <=> IsFiniteSet(S)) /\ (Ho!IsFiniteSet(S) <=> IsFiniteSet(S))
BY DEF IsFiniteSet, Ms!IsFiniteSet, Ho!IsFiniteSet

-----------------------------------------------------------------------------
(* The embedding of a memory record: content, deleted, vector, embedding   *)
(* and overlap are the parts 1 to 5.                                       *)

\* A new record is indexed, or not.
LEMMA IndexInitInv == Ix!IndexInit => Ix!IndexInv
<1> SUFFICES ASSUME Ix!IndexInit PROVE Ix!IndexInv
  OBVIOUS
<1>1. Ix!IndexTypeOK
  BY DEF Ix!IndexInit, Ix!IndexTypeOK
<1>2. Ix!InFlight = {}
  BY DEF Ix!IndexInit, Ix!InFlight
<1> QED
  BY <1>1, <1>2 DEF Ix!IndexInit, Ix!IndexInv, Ix!StaleOnlyWhenOvertaken

\* An update commits its content.
LEMMA UpdateContentInv ==
  ASSUME Ix!IndexInv, NEW u \in Updater, NEW x \in Content, Ix!UpdateContent(u, x)
  PROVE  Ix!IndexInv'
<1>1. Ix!IndexTypeOK'
  BY DEF Ix!UpdateContent, Ix!IndexInv, Ix!IndexTypeOK, Ix!DroppedVector, Ix!InFlight
<1>2. ASSUME ~part5' PROVE Ix!InFlight' \subseteq {u} /\ part4'[u] = x /\ ~part2
  BY <1>2 DEF Ix!UpdateContent, Ix!IndexInv, Ix!IndexTypeOK, Ix!InFlight
<1> QED
  BY <1>1, <1>2 DEF Ix!UpdateContent, Ix!IndexInv, Ix!StaleOnlyWhenOvertaken, Ix!DroppedVector

\* Its second commit, which the provider may leave without an embedding.
LEMMA UpdateVectorInv ==
  ASSUME Ix!IndexInv, NEW u \in Updater, Ix!UpdateVector(u) PROVE Ix!IndexInv'
<1>1. Ix!IndexTypeOK'
  BY DEF Ix!UpdateVector, Ix!IndexInv, Ix!IndexTypeOK
<1>2. u \in Ix!InFlight /\ Ix!InFlight' \subseteq Ix!InFlight
  BY DEF Ix!UpdateVector, Ix!IndexInv, Ix!IndexTypeOK, Ix!InFlight
<1>3. \A v \in Ix!InFlight' : part4'[v] = part4[v]
  BY DEF Ix!UpdateVector, Ix!IndexInv, Ix!IndexTypeOK, Ix!InFlight
<1> QED
  BY <1>1, <1>2, <1>3 DEF Ix!UpdateVector, Ix!IndexInv, Ix!StaleOnlyWhenOvertaken

\* A process that ends, a deletion and the reindexer.
LEMMA IndexOtherInv ==
  ASSUME Ix!IndexInv,
         (\E u \in Updater : Ix!UpdaterCrash(u)) \/ Ix!DeleteRecord \/ Ix!Reindex
  PROVE  Ix!IndexInv'
<1>1. ASSUME NEW u \in Updater, Ix!UpdaterCrash(u) PROVE Ix!IndexInv'
  <2>1. Ix!IndexTypeOK'
    BY <1>1 DEF Ix!UpdaterCrash, Ix!IndexInv, Ix!IndexTypeOK
  <2>2. Ix!InFlight' \subseteq Ix!InFlight /\ \A v \in Ix!InFlight' : part4'[v] = part4[v]
    BY <1>1 DEF Ix!UpdaterCrash, Ix!IndexInv, Ix!IndexTypeOK, Ix!InFlight
  <2> QED
    BY <1>1, <2>1, <2>2 DEF Ix!UpdaterCrash, Ix!IndexInv, Ix!StaleOnlyWhenOvertaken
<1>2. CASE Ix!DeleteRecord
  BY <1>2 DEF Ix!DeleteRecord, Ix!IndexInv, Ix!IndexTypeOK, Ix!InFlight, Ix!StaleOnlyWhenOvertaken
<1>3. CASE Ix!Reindex
  BY <1>3 DEF Ix!Reindex, Ix!IndexInv, Ix!IndexTypeOK, Ix!InFlight, Ix!StaleOnlyWhenOvertaken
<1> QED
  BY <1>1, <1>2, <1>3

\* No step and no other scene disturbs it.
LEMMA IndexStep ==
  ASSUME scene = "index" => Ix!IndexInv, [ServicesNext]_servicesVars
  PROVE  (scene = "index" => Ix!IndexInv)'
<1>1. CASE UNCHANGED servicesVars
  BY <1>1 DEF servicesVars, Ix!IndexInv, Ix!IndexTypeOK, Ix!InFlight, Ix!StaleOnlyWhenOvertaken
<1>2. CASE ServicesNext
  <2> SUFFICES ASSUME scene' = "index" PROVE Ix!IndexInv'
    OBVIOUS
  <2>1. scene = "index"
    BY <1>2 DEF ServicesNext
  <2>2. Ix!IndexNext
    BY <1>2, <2>1 DEF ServicesNext, InParts
  <2> QED
    BY <2>1, <2>2, UpdateContentInv, UpdateVectorInv, IndexOtherInv DEF Ix!IndexNext
<1> QED
  BY <1>1, <1>2

\* The index shows what the record says and nothing of a deleted one, as long
\* as no update is overtaken between its two commits, for any number of updates
\* and contents (AgentMemoryService.update_memory, MemoryReindexer.run).
THEOREM IndexIsOfTheContent == ServicesSpec => []StaleOnlyWhenOvertaken
<1>1. ServicesInit => (scene = "index" => Ix!IndexInv)
  BY IndexInitInv DEF ServicesInit
<1>2. (scene = "index" => Ix!IndexInv) => StaleOnlyWhenOvertaken
  BY DEF Ix!IndexInv, StaleOnlyWhenOvertaken
<1> QED
  BY <1>1, <1>2, IndexStep, PTL DEF ServicesSpec

-----------------------------------------------------------------------------
(* The message center: readAt, inbox, claim, reading, reads and told are   *)
(* the parts 1 to 6.                                                       *)

\* A request that has claimed a key, or goes on with one.
LEMMA ClaimedIsOne ==
  ASSUME Ms!MessageInv, NEW t \in Thread, part4[t] # Ms!NoReading
  PROVE  /\ part4[t].key \in ReadKey /\ part4[t].of \in Ms!Target
         /\ part4[t].step = "LOADED" => part4[t].of \in Message /\ part4[t].at \in Nat
         /\ part3[part4[t].key] = Ms!NoClaim /\ part6[part4[t].key] = {}
<1>1. part4[t] \in Ms!Claimed \cup Ms!Loaded
  BY DEF Ms!MessageInv, Ms!MessageTypeOK
<1>2. part4[t].key \in ReadKey /\ part4[t].of \in Ms!Target
  BY <1>1 DEF Ms!Claimed, Ms!Loaded, Ms!Target
<1>3. part4[t].step = "LOADED" => part4[t].of \in Message /\ part4[t].at \in Nat
  BY <1>1 DEF Ms!Claimed, Ms!Loaded
<1> QED
  BY <1>2, <1>3 DEF Ms!MessageInv

\* A request goes elsewhere: it has claimed a key that nobody has, it goes on
\* with its own, or it ends.
LEMMA ReadingMoves ==
  ASSUME Ms!MessageInv, NEW t \in Thread,
         NEW r \in {Ms!NoReading} \cup Ms!Claimed \cup Ms!Loaded,
         part4' = [part4 EXCEPT ![t] = r],
         r # Ms!NoReading =>
            /\ part3[r.key] = Ms!NoClaim
            /\ \A u \in Thread \ {t} : part4[u] # Ms!NoReading => part4[u].key # r.key,
         UNCHANGED <<part1, part2, part3, part5, part6>>
  PROVE  Ms!MessageInv'
<1>1. Ms!MessageTypeOK'
  BY DEF Ms!MessageInv, Ms!MessageTypeOK
<1>2. part4'[t] = r /\ \A u \in Thread \ {t} : part4'[u] = part4[u]
  BY DEF Ms!MessageInv, Ms!MessageTypeOK
<1>3. \A u \in Thread : part4'[u] # Ms!NoReading => part3'[part4'[u].key] = Ms!NoClaim
  BY <1>2 DEF Ms!MessageInv
<1>4. ASSUME NEW u \in Thread, NEW v \in Thread,
             part4'[u] # Ms!NoReading, part4'[v] # Ms!NoReading, part4'[u].key = part4'[v].key
      PROVE  u = v
  <2>1. CASE u = t \/ v = t
    BY <2>1, <1>2, <1>4
  <2>2. CASE u # t /\ v # t
    BY <2>2, <1>2, <1>4 DEF Ms!MessageInv
  <2> QED
    BY <2>1, <2>2
<1> QED
  BY <1>1, <1>3, <1>4 DEF Ms!MessageInv

\* A request ends with an answer, which becomes the one of its key.
LEMMA SettleInv ==
  ASSUME Ms!MessageInv, NEW t \in Thread, NEW answer \in Ms!Answer,
         part4[t] # Ms!NoReading, Ms!Settle(t, answer),
         part1' \in [Message -> Nat], part5' \in Nat, part2' = part2
  PROVE  Ms!MessageInv'
<1> DEFINE k == part4[t].key
           c == [of |-> part4[t].of, answer |-> answer]
<1>1. k \in ReadKey /\ part4[t].of \in Ms!Target /\ part6[k] = {}
  BY ClaimedIsOne
<1>2. c \in [of : Ms!Target, answer : Ms!Answer] /\ c # Ms!NoClaim /\ c.answer = answer
  <2>1. "answer" \in DOMAIN c /\ "answer" \notin DOMAIN Ms!NoClaim
    BY DEF Ms!NoClaim
  <2> QED
    BY <1>1, <2>1
<1>3. /\ part3' = [part3 EXCEPT ![k] = c]
      /\ part6' = [part6 EXCEPT ![k] = part6[k] \cup {answer}]
      /\ part4' = [part4 EXCEPT ![t] = Ms!NoReading]
  BY DEF Ms!Settle, Ms!EndReading
<1> HIDE DEF c
<1>4. Ms!MessageTypeOK'
  BY <1>1, <1>2, <1>3 DEF Ms!MessageInv, Ms!MessageTypeOK
<1>5. /\ part3'[k] = c /\ \A j \in ReadKey \ {k} : part3'[j] = part3[j]
      /\ part6'[k] = {answer} /\ \A j \in ReadKey \ {k} : part6'[j] = part6[j]
      /\ part4'[t] = Ms!NoReading /\ \A u \in Thread \ {t} : part4'[u] = part4[u]
  BY <1>1, <1>3 DEF Ms!MessageInv, Ms!MessageTypeOK
<1>6. ASSUME NEW j \in ReadKey
      PROVE  part6'[j] = IF part3'[j] = Ms!NoClaim THEN {} ELSE {part3'[j].answer}
  <2>1. CASE j = k
    BY <2>1, <1>2, <1>5
  <2>2. CASE j # k
    BY <2>2, <1>5 DEF Ms!MessageInv
  <2> QED
    BY <2>1, <2>2
<1>7. ASSUME NEW u \in Thread, part4'[u] # Ms!NoReading
      PROVE  u # t /\ part4'[u] = part4[u] /\ part4[u].key \in ReadKey \ {k}
  <2>1. u # t /\ part4'[u] = part4[u]
    BY <1>5, <1>7
  <2>2. part4[u].key # k
    BY <2>1, <1>7 DEF Ms!MessageInv
  <2> QED
    BY <2>1, <2>2, <1>7, ClaimedIsOne
<1>8. \A u \in Thread : part4'[u] # Ms!NoReading => part3'[part4'[u].key] = Ms!NoClaim
  BY <1>5, <1>7 DEF Ms!MessageInv
<1>9. \A u, v \in Thread :
         part4'[u] # Ms!NoReading /\ part4'[v] # Ms!NoReading /\ part4'[u].key = part4'[v].key => u = v
  BY <1>7 DEF Ms!MessageInv
<1> QED
  BY <1>4, <1>6, <1>8, <1>9 DEF Ms!MessageInv

\* A key is looked up: its answer is given again, or it is claimed.
LEMMA CheckInv ==
  ASSUME Ms!MessageInv, NEW t \in Thread, NEW k \in ReadKey, NEW x \in Ms!Target,
         Ms!Check(t, k, x)
  PROVE  Ms!MessageInv'
<1>1. CASE part3[k] # Ms!NoClaim
  <2>1. part6[k] = {part3[k].answer}
    BY <1>1 DEF Ms!MessageInv
  <2>2. part6' = [part6 EXCEPT ![k] = part6[k]] /\ UNCHANGED <<part1, part2, part3, part4, part5>>
    BY <1>1, <2>1 DEF Ms!Check
  <2>3. part6' = part6
    BY <2>2 DEF Ms!MessageInv, Ms!MessageTypeOK
  <2> QED
    BY <2>2, <2>3 DEF Ms!MessageInv, Ms!MessageTypeOK
<1>2. CASE part3[k] = Ms!NoClaim
  <2> DEFINE r == [step |-> "CLAIMED", key |-> k, of |-> x]
  <2>1. r \in Ms!Claimed /\ r.key = k
    BY DEF Ms!Claimed
  <2>2. part4' = [part4 EXCEPT ![t] = r] /\ Ms!Claimable(k)
        /\ UNCHANGED <<part1, part2, part3, part5, part6>>
    BY <1>2 DEF Ms!Check
  <2>3. ASSUME NEW u \in Thread, part4[u] # Ms!NoReading PROVE part4[u].key # k
    <3>1. part4[u] \in Ms!Claimed \cup Ms!Loaded
      BY <2>3 DEF Ms!MessageInv, Ms!MessageTypeOK
    <3>2. part4[u].step # "NONE"
      BY <3>1 DEF Ms!Claimed, Ms!Loaded
    <3> QED
      BY <2>2, <3>2 DEF Ms!Claimable
  <2> HIDE DEF r
  <2> QED
    BY <1>2, <2>1, <2>2, <2>3, ReadingMoves
<1> QED
  BY <1>1, <1>2

\* A request reads its message, or ends without one.
LEMMA LoadMessageInv ==
  ASSUME Ms!MessageInv, NEW t \in Thread, Ms!LoadMessage(t) \/ Ms!AbortReading(t)
  PROVE  Ms!MessageInv'
<1>1. UNCHANGED <<part1, part2, part3, part5, part6>>
  BY DEF Ms!LoadMessage, Ms!AbortReading
<1>2. CASE part4' = [part4 EXCEPT ![t] = Ms!NoReading]
  BY <1>1, <1>2, ReadingMoves
<1>3. CASE Ms!LoadMessage(t) /\ part4[t].of \in part2
  <2> DEFINE r == [step |-> "LOADED", key |-> part4[t].key, of |-> part4[t].of,
                   at |-> part1[part4[t].of]]
  <2>1. part4' = [part4 EXCEPT ![t] = r] /\ part4[t] # Ms!NoReading
    BY <1>3 DEF Ms!LoadMessage, Ms!NoReading
  <2>2. part4[t].key \in ReadKey /\ part3[part4[t].key] = Ms!NoClaim
    BY <2>1, ClaimedIsOne
  <2>3. part4[t].of \in Message /\ part1[part4[t].of] \in Nat
    BY <1>3 DEF Ms!MessageInv, Ms!MessageTypeOK
  <2>4. r \in Ms!Loaded /\ r.key = part4[t].key
    BY <2>2, <2>3 DEF Ms!Loaded
  <2>5. \A u \in Thread \ {t} : part4[u] # Ms!NoReading => part4[u].key # r.key
    BY <2>1, <2>4 DEF Ms!MessageInv
  <2> HIDE DEF r
  <2> QED
    BY <1>1, <2>1, <2>2, <2>4, <2>5, ReadingMoves
<1> QED
  BY <1>2, <1>3 DEF Ms!LoadMessage, Ms!AbortReading, Ms!EndReading

\* One message is read, which may have been read before.
LEMMA MarkReadInv ==
  ASSUME Ms!MessageInv, NEW t \in Thread, Ms!MarkRead(t) PROVE Ms!MessageInv'
<1> DEFINE r == part4[t]
           at == IF r.at = 0 THEN part5 + 1 ELSE r.at
           answer == [of |-> r.of, at |-> at, count |-> 1]
<1>1. r # Ms!NoReading /\ r.step = "LOADED"
  BY DEF Ms!MarkRead, Ms!NoReading
<1>2. r.of \in Message /\ r.at \in Nat
  BY <1>1, ClaimedIsOne
<1>3. part1 \in [Message -> Nat] /\ part5 \in Nat
  BY DEF Ms!MessageInv, Ms!MessageTypeOK
<1>4. answer \in Ms!Answer
  BY <1>2, <1>3 DEF Ms!Answer, Ms!Target
<1>5. part1' \in [Message -> Nat] /\ part5' \in Nat /\ part2' = part2
  BY <1>2, <1>3 DEF Ms!MarkRead
<1>6. Ms!Settle(t, answer)
  BY DEF Ms!MarkRead
<1> HIDE DEF r, answer
<1> QED
  BY <1>1, <1>4, <1>5, <1>6, SettleInv DEF r

\* All that is unread is read.
LEMMA MarkAllReadInv ==
  ASSUME Ms!MessageInv, NEW t \in Thread, Ms!MarkAllRead(t) PROVE Ms!MessageInv'
<1> DEFINE unread == {m \in part2 : part1[m] = 0}
           answer == [of |-> Ms!All, at |-> part5 + 1, count |-> Ms!Cardinality(unread)]
<1>1. part4[t] # Ms!NoReading
  BY DEF Ms!MarkAllRead, Ms!NoReading
<1>2. part1 \in [Message -> Nat] /\ part5 \in Nat /\ IsFiniteSet(part2)
  BY SameFinite DEF Ms!MessageInv, Ms!MessageTypeOK
<1>3. Ms!Cardinality(unread) \in Nat
  BY <1>2, SameCardinality, FS_Subset, FS_CardinalityType
<1>4. answer \in Ms!Answer
  BY <1>2, <1>3 DEF Ms!Answer, Ms!Target
<1>5. part1' \in [Message -> Nat] /\ part5' \in Nat /\ part2' = part2
  BY <1>2 DEF Ms!MarkAllRead
<1>6. Ms!Settle(t, answer)
  BY DEF Ms!MarkAllRead
<1> HIDE DEF unread, answer
<1> QED
  BY <1>1, <1>4, <1>5, <1>6, SettleInv

\* No step and no other scene disturbs it.
LEMMA MessageStep ==
  ASSUME scene = "messages" => Ms!MessageInv, [ServicesNext]_servicesVars
  PROVE  (scene = "messages" => Ms!MessageInv)'
<1>1. CASE UNCHANGED servicesVars
  BY <1>1 DEF servicesVars, Ms!MessageInv, Ms!MessageTypeOK
<1>2. CASE ServicesNext
  <2> SUFFICES ASSUME scene' = "messages" PROVE Ms!MessageInv'
    OBVIOUS
  <2>1. scene = "messages"
    BY <1>2 DEF ServicesNext
  <2>2. Ms!MessageNext
    BY <1>2, <2>1 DEF ServicesNext, InParts
  <2>3. ASSUME NEW m \in Message, Ms!Arrive(m) PROVE Ms!MessageInv'
    <3>1. part2' \subseteq Message /\ Ms!IsFiniteSet(part2')
      BY <2>1, <2>3, FS_AddElement, SameFinite DEF Ms!Arrive, Ms!MessageInv, Ms!MessageTypeOK
    <3> QED
      BY <2>1, <2>3, <3>1 DEF Ms!Arrive, Ms!MessageInv, Ms!MessageTypeOK
  <2> QED
    BY <2>1, <2>2, <2>3, CheckInv, LoadMessageInv, MarkReadInv, MarkAllReadInv DEF Ms!MessageNext
<1> QED
  BY <1>1, <1>2

\* Whoever repeats a request under a key, at once or later, is told what was
\* told first, for any number of requests and keys
\* (PlatformIdempotencyService.claim).
THEOREM KeysAreAnsweredAlike == ServicesSpec => []KeyHasOneAnswer
<1>1. ServicesInit => (scene = "messages" => Ms!MessageInv)
  BY FS_EmptySet, SameFinite DEF ServicesInit, Ms!MessageInit, Ms!MessageInv, Ms!MessageTypeOK
<1>2. (scene = "messages" => Ms!MessageInv) => KeyHasOneAnswer
  <2> SUFFICES ASSUME Ms!MessageInv, NEW k \in ReadKey PROVE Cardinality(part6[k]) <= 1
    BY SameCardinality DEF KeyHasOneAnswer, Ms!KeyHasOneAnswer
  <2>1. part6[k] = {} \/ part6[k] = {part3[k].answer}
    BY DEF Ms!MessageInv
  <2>2. Cardinality({}) = 0 /\ Cardinality({part3[k].answer}) = 1
    BY FS_EmptySet, FS_Singleton
  <2> QED
    BY <2>1, <2>2
<1> QED
  BY <1>1, <1>2, MessageStep, PTL DEF ServicesSpec

-----------------------------------------------------------------------------
(* The handover of high-risk reports: onDuty, tickets, records, consumed,  *)
(* handing and told are the parts 1 to 6.                                  *)

\* A request has locked the row of its token.
HoldsToken(t) == part5[t].pc \in {"adding", "saving"}

\* What a request knows while it is under way.
LEMMA HandingTyped ==
  ASSUME Ho!HandoverInv, NEW t \in Thread, part5[t] # Ho!Idle
  PROVE  /\ part5[t] \in Ho!Opened \cup Ho!Saving
         /\ part5[t].key \in ReportKey /\ part5[t].hash \in Report
         /\ part5[t].token \in Receipt /\ part5[t].seen \subseteq Nat
         /\ part5[t].pc = "saving" => part5[t].receivers \subseteq Duty
<1>1. part5[t] \in Ho!Opened \cup Ho!Saving
  BY DEF Ho!HandoverInv, Ho!HandoverTypeOK
<1> QED
  BY <1>1 DEF Ho!Opened, Ho!Saving

\* The tickets are numbered, and what was answered is one of them.
LEMMA TicketsTyped ==
  ASSUME Ho!HandoverInv
  PROVE  /\ Len(part2) \in Nat /\ DOMAIN part2 = 1..Len(part2)
         /\ \A i \in DOMAIN part2 : part2[i] \in Ho!TicketRow
BY LenProperties, ElementOfSeq DEF Ho!HandoverInv, Ho!HandoverTypeOK

\* A request goes elsewhere, and the tickets stay as they are.
LEMMA HandingMoves ==
  ASSUME Ho!HandoverInv, NEW t \in Thread,
         NEW r \in {Ho!Idle} \cup Ho!Opened \cup Ho!Saving,
         part5' = [part5 EXCEPT ![t] = r],
         r # Ho!Idle => \A j \in r.seen : j \in DOMAIN part2 /\ part2[j].key # r.key,
         r.pc \in {"adding", "saving"} =>
            /\ r.token \notin part4
            /\ \A u \in Thread \ {t} : HoldsToken(u) => part5[u].token # r.token,
         UNCHANGED <<part1, part2, part3, part4, part6>>
  PROVE  Ho!HandoverInv'
<1>1. Ho!HandoverTypeOK'
  BY DEF Ho!HandoverInv, Ho!HandoverTypeOK
<1>2. part5'[t] = r /\ \A u \in Thread \ {t} : part5'[u] = part5[u]
  BY DEF Ho!HandoverInv, Ho!HandoverTypeOK
<1>3. \A u \in Thread : part5'[u] # Ho!Idle =>
         \A j \in part5'[u].seen : j \in DOMAIN part2 /\ part2[j].key # part5'[u].key
  BY <1>2 DEF Ho!HandoverInv
<1>4. ASSUME NEW u \in Thread, part5'[u].pc \in {"adding", "saving"}
      PROVE  /\ part5'[u].token \notin part4
             /\ \A v \in Thread \ {u} :
                   part5'[v].pc \in {"adding", "saving"} => part5'[v].token # part5'[u].token
  <2>1. CASE u = t
    BY <2>1, <1>2, <1>4 DEF HoldsToken
  <2>2. CASE u # t
    <3>1. part5'[u] = part5[u] /\ HoldsToken(u)
      BY <2>2, <1>2, <1>4 DEF HoldsToken
    <3>2. ASSUME NEW v \in Thread \ {u}, part5'[v].pc \in {"adding", "saving"}
          PROVE  part5'[v].token # part5'[u].token
      <4>1. CASE v = t
        BY <4>1, <2>2, <3>1, <3>2, <1>2
      <4>2. CASE v # t
        BY <4>2, <3>1, <3>2, <1>2 DEF Ho!HandoverInv, HoldsToken
      <4> QED
        BY <4>1, <4>2
    <3> QED
      BY <3>1, <3>2 DEF Ho!HandoverInv, HoldsToken
  <2> QED
    BY <2>1, <2>2
<1>5. Ho!HandedOverOnce'
  BY DEF Ho!HandoverInv, Ho!HandedOverOnce
<1> QED
  BY <1>1, <1>3, <1>4, <1>5 DEF Ho!HandoverInv

\* The key is looked up.
LEMMA HandOverInv ==
  ASSUME Ho!HandoverInv, NEW t \in Thread, NEW k \in ReportKey, NEW h \in Report,
         NEW x \in Receipt, Ho!HandOver(t, k, h, x)
  PROVE  Ho!HandoverInv'
<1>1. CASE part3[k] = Ho!NoRecord
  <2> DEFINE r == [pc |-> "begun", key |-> k, hash |-> h, token |-> x, seen |-> DOMAIN part2]
  <2>1. part5' = [part5 EXCEPT ![t] = r] /\ UNCHANGED <<part1, part2, part3, part4, part6>>
    BY <1>1 DEF Ho!HandOver, Ho!Goto
  <2>2. r \in Ho!Opened
    BY TicketsTyped DEF Ho!Opened
  <2>3. \A j \in r.seen : j \in DOMAIN part2 /\ part2[j].key # r.key
    BY <1>1 DEF Ho!HandoverInv
  <2>4. r.pc \notin {"adding", "saving"}
    OBVIOUS
  <2> HIDE DEF r
  <2> QED
    BY <2>1, <2>2, <2>3, <2>4, HandingMoves
<1>2. CASE part3[k] # Ho!NoRecord
  <2>1. part3[k] \in Ho!Answer /\ part3[k] \in part6
    BY <1>2 DEF Ho!HandoverInv, Ho!HandoverTypeOK
  <2>2. part3[k] = [hash |-> h, ticket |-> part3[k].ticket, notified |-> part3[k].notified]
    BY <1>2, <2>1 DEF Ho!HandOver, Ho!Answer
  <2>3. UNCHANGED <<part1, part2, part3, part4, part5, part6>>
    BY <1>2, <2>1, <2>2 DEF Ho!HandOver
  <2> QED
    BY <2>3 DEF Ho!HandoverInv, Ho!HandoverTypeOK, Ho!HandedOverOnce
<1> QED
  BY <1>1, <1>2

\* The token is consumed, under its lock.
LEMMA HandConsumeInv ==
  ASSUME Ho!HandoverInv, NEW t \in Thread, Ho!Consume(t) PROVE Ho!HandoverInv'
<1> DEFINE r == [part5[t] EXCEPT !.pc = "adding"]
<1>1. part5[t] # Ho!Idle /\ part5[t].pc = "begun"
  BY DEF Ho!Consume, Ho!Idle
<1>2. part5[t] \in Ho!Opened
  BY <1>1, HandingTyped DEF Ho!Saving
<1>3. /\ r \in Ho!Opened /\ r.key = part5[t].key /\ r.seen = part5[t].seen
      /\ r.token = part5[t].token
  BY <1>2 DEF Ho!Opened
<1>4. part5' = [part5 EXCEPT ![t] = r] /\ UNCHANGED <<part1, part2, part3, part4, part6>>
  BY DEF Ho!Consume, Ho!Goto
<1>5. \A j \in r.seen : j \in DOMAIN part2 /\ part2[j].key # r.key
  BY <1>1, <1>3 DEF Ho!HandoverInv
<1>6. r.token \notin part4 /\ \A u \in Thread : HoldsToken(u) => part5[u].token # r.token
  BY <1>3 DEF Ho!Consume, Ho!Unused, Ho!Locked, HoldsToken
<1> HIDE DEF r
<1> QED
  BY <1>3, <1>4, <1>5, <1>6, HandingMoves

\* Who is on duty is told.
LEMMA TellInv ==
  ASSUME Ho!HandoverInv, NEW t \in Thread, Ho!Tell(t) PROVE Ho!HandoverInv'
<1> DEFINE r == [pc |-> "saving", key |-> part5[t].key, hash |-> part5[t].hash,
                 token |-> part5[t].token, seen |-> part5[t].seen, receivers |-> part1,
                 overwrites |-> Ho!Overwrites(part5[t].key)]
<1>1. part5[t] # Ho!Idle /\ HoldsToken(t)
  BY DEF Ho!Tell, Ho!Idle, HoldsToken
<1>2. part5' = [part5 EXCEPT ![t] = r] /\ UNCHANGED <<part1, part2, part3, part4, part6>>
  BY DEF Ho!Tell, Ho!Goto
<1>3. r \in Ho!Saving
  BY <1>1, HandingTyped DEF Ho!Saving, Ho!Overwrites, Ho!HandoverInv, Ho!HandoverTypeOK
<1>4. r.key = part5[t].key /\ r.seen = part5[t].seen /\ r.token = part5[t].token
  OBVIOUS
<1>5. \A j \in r.seen : j \in DOMAIN part2 /\ part2[j].key # r.key
  BY <1>1, <1>4 DEF Ho!HandoverInv
<1>6. r.token \notin part4 /\ \A u \in Thread \ {t} : HoldsToken(u) => part5[u].token # r.token
  BY <1>1, <1>4 DEF Ho!HandoverInv, HoldsToken
<1> HIDE DEF r
<1> QED
  BY <1>2, <1>3, <1>5, <1>6, HandingMoves

\* The commit.  No ticket has the token, and none of the key was seen.
LEMMA HandCommitInv ==
  ASSUME Ho!HandoverInv, NEW t \in Thread, Ho!Commit(t), Ho!IsFiniteSet(Duty)
  PROVE  Ho!HandoverInv'
<1> DEFINE r == part5[t]
           row == Ho!Ticket(r)
           answer == [hash |-> r.hash, ticket |-> Len(part2) + 1,
                      notified |-> Ho!Cardinality(r.receivers)]
<1>1. r # Ho!Idle /\ HoldsToken(t) /\ r.pc = "saving"
  BY DEF Ho!Commit, Ho!Idle, HoldsToken
<1>2. /\ r.key \in ReportKey /\ r.hash \in Report /\ r.token \in Receipt
      /\ r.seen \subseteq Nat /\ r.receivers \subseteq Duty
  BY <1>1, HandingTyped
<1>3. row \in Ho!TicketRow
  BY <1>2 DEF Ho!TicketRow, Ho!Ticket
<1>4. /\ row.hash = r.hash /\ row.key = r.key /\ row.token = r.token /\ row.seen = r.seen
      /\ row.receivers = r.receivers
  BY DEF Ho!Ticket
<1>5. Len(part2) \in Nat /\ DOMAIN part2 = 1..Len(part2) /\ part2 \in Seq(Ho!TicketRow)
  BY TicketsTyped DEF Ho!HandoverInv, Ho!HandoverTypeOK
<1>6. Ho!Cardinality(r.receivers) \in Nat
  BY <1>2, SameCardinality, SameFinite, FS_Subset, FS_CardinalityType
<1>7. /\ answer \in Ho!Answer /\ answer # Ho!NoRecord
      /\ answer.ticket = Len(part2) + 1 /\ answer.hash = r.hash
      /\ answer.notified = Ho!Cardinality(r.receivers)
  BY <1>2, <1>5, <1>6 DEF Ho!Answer, Ho!NoRecord
<1>8. /\ part2' = Append(part2, row) /\ part3' = [part3 EXCEPT ![r.key] = answer]
      /\ part4' = part4 \cup {r.token} /\ part6' = part6 \cup {answer}
      /\ part5' = [part5 EXCEPT ![t] = Ho!Idle] /\ part1' = part1
  BY DEF Ho!Commit, Ho!Finish, Ho!Goto
<1>9. r.token \notin part4 /\ \A j \in r.seen : j \in DOMAIN part2 /\ part2[j].key # r.key
  BY <1>1 DEF Ho!HandoverInv, HoldsToken
<1> HIDE DEF row, answer
<1>10. /\ part2' \in Seq(Ho!TicketRow) /\ DOMAIN part2' = 1..(Len(part2) + 1)
       /\ part2'[Len(part2) + 1] = row /\ \A i \in DOMAIN part2 : part2'[i] = part2[i]
  BY <1>3, <1>5, <1>8, AppendProperties, LenProperties
<1>11. Ho!HandoverTypeOK'
  BY <1>2, <1>7, <1>8, <1>10 DEF Ho!HandoverInv, Ho!HandoverTypeOK
<1>12. /\ part3'[r.key] = answer /\ \A k \in ReportKey \ {r.key} : part3'[k] = part3[k]
       /\ part5'[t] = Ho!Idle /\ \A u \in Thread \ {t} : part5'[u] = part5[u]
  BY <1>2, <1>8 DEF Ho!HandoverInv, Ho!HandoverTypeOK
<1>13. \A i \in DOMAIN part2' : part2'[i].token \in part4' /\ part3'[part2'[i].key] # Ho!NoRecord
  <2> SUFFICES ASSUME NEW i \in DOMAIN part2'
               PROVE  part2'[i].token \in part4' /\ part3'[part2'[i].key] # Ho!NoRecord
    OBVIOUS
  <2>1. CASE i = Len(part2) + 1
    BY <2>1, <1>4, <1>7, <1>8, <1>10, <1>12
  <2>2. CASE i # Len(part2) + 1
    <3>1. i \in DOMAIN part2 /\ part2'[i] = part2[i]
      BY <2>2, <1>5, <1>10
    <3>2. part2[i].token \in part4 /\ part3[part2[i].key] # Ho!NoRecord
          /\ part2[i].key \in ReportKey
      BY <3>1, TicketsTyped DEF Ho!HandoverInv, Ho!TicketRow
    <3> QED
      BY <3>1, <3>2, <1>7, <1>8, <1>12
  <2> QED
    BY <2>1, <2>2
<1>14. \A k \in ReportKey : part3'[k] # Ho!NoRecord => part3'[k] \in part6'
  BY <1>8, <1>12 DEF Ho!HandoverInv
<1>15. \A u \in Thread : part5'[u] # Ho!Idle =>
          \A j \in part5'[u].seen : j \in DOMAIN part2' /\ part2'[j].key # part5'[u].key
  <2> SUFFICES ASSUME NEW u \in Thread, part5'[u] # Ho!Idle, NEW j \in part5'[u].seen
               PROVE  j \in DOMAIN part2' /\ part2'[j].key # part5'[u].key
    OBVIOUS
  <2>1. part5'[u] = part5[u] /\ j \in DOMAIN part2 /\ part2[j].key # part5[u].key
    BY <1>12 DEF Ho!HandoverInv
  <2> QED
    BY <2>1, <1>5, <1>10
<1>16. \A u \in Thread : part5'[u].pc \in {"adding", "saving"} =>
          /\ part5'[u].token \notin part4'
          /\ \A v \in Thread \ {u} :
                part5'[v].pc \in {"adding", "saving"} => part5'[v].token # part5'[u].token
  <2> SUFFICES ASSUME NEW u \in Thread, part5'[u].pc \in {"adding", "saving"}
               PROVE  /\ part5'[u].token \notin part4'
                      /\ \A v \in Thread \ {u} :
                            part5'[v].pc \in {"adding", "saving"} => part5'[v].token # part5'[u].token
    OBVIOUS
  <2>1. u # t /\ part5'[u] = part5[u]
    BY <1>12 DEF Ho!Idle
  <2>2. part5[u].token \notin part4 /\ part5[u].token # r.token
    BY <2>1, <1>1 DEF Ho!HandoverInv, HoldsToken
  <2>3. \A v \in Thread \ {u} : part5'[v].pc \in {"adding", "saving"} => part5'[v] = part5[v]
    BY <1>12 DEF Ho!Idle
  <2> QED
    BY <2>1, <2>2, <2>3, <1>8 DEF Ho!HandoverInv
<1>17. Ho!HandedOverOnce'
  <2>1. ASSUME NEW i \in DOMAIN part2', NEW j \in 1..i - 1
        PROVE  /\ part2'[i].token # part2'[j].token
               /\ part2'[i].key = part2'[j].key => j \notin part2'[i].seen
    <3>1. j \in DOMAIN part2 /\ part2'[j] = part2[j]
      BY <1>5, <1>10
    <3>2. CASE i = Len(part2) + 1
      <4>1. part2[j].token \in part4
        BY <3>1 DEF Ho!HandoverInv
      <4> QED
        BY <3>1, <3>2, <4>1, <1>4, <1>9, <1>10
    <3>3. CASE i # Len(part2) + 1
      <4>1. i \in DOMAIN part2 /\ part2'[i] = part2[i]
        BY <3>3, <1>5, <1>10
      <4> QED
        BY <3>1, <4>1 DEF Ho!HandoverInv, Ho!HandedOverOnce
    <3> QED
      BY <3>2, <3>3
  <2>2. ASSUME NEW a \in part6'
        PROVE  /\ a.ticket \in DOMAIN part2' /\ part2'[a.ticket].hash = a.hash
               /\ a.notified = Ho!Cardinality(part2'[a.ticket].receivers)
    <3>1. CASE a = answer
      BY <3>1, <1>4, <1>5, <1>7, <1>10
    <3>2. CASE a \in part6
      <4>1. /\ a.ticket \in DOMAIN part2 /\ part2[a.ticket].hash = a.hash
            /\ a.notified = Ho!Cardinality(part2[a.ticket].receivers)
        BY <3>2 DEF Ho!HandoverInv, Ho!HandedOverOnce
      <4>2. a.ticket \in DOMAIN part2' /\ part2'[a.ticket] = part2[a.ticket]
        BY <4>1, <1>5, <1>10
      <4> QED
        BY <4>1, <4>2
    <3> QED
      BY <2>2, <3>1, <3>2, <1>8
  <2> QED
    BY <2>1, <2>2 DEF Ho!HandedOverOnce
<1> QED
  BY <1>11, <1>13, <1>14, <1>15, <1>16, <1>17 DEF Ho!HandoverInv

\* A request that is rolled back, and the staff that comes and goes.
LEMMA HandOtherInv ==
  ASSUME Ho!HandoverInv,
         (\E t \in Thread : Ho!Rollback(t)) \/ \E d \in Duty : Ho!ChangeDuty(d)
  PROVE  Ho!HandoverInv'
<1>1. ASSUME NEW t \in Thread, Ho!Rollback(t) PROVE Ho!HandoverInv'
  <2>1. Ho!Idle.pc \notin {"adding", "saving"}
    BY DEF Ho!Idle
  <2> QED
    BY <1>1, <2>1, HandingMoves DEF Ho!Rollback, Ho!Finish, Ho!Goto
<1>2. ASSUME NEW d \in Duty, Ho!ChangeDuty(d) PROVE Ho!HandoverInv'
  BY <1>2 DEF Ho!ChangeDuty, Ho!HandoverInv, Ho!HandoverTypeOK, Ho!HandedOverOnce
<1> QED
  BY <1>1, <1>2

\* No step and no other scene disturbs it.
LEMMA HandoverStep ==
  ASSUME scene = "handover" => Ho!HandoverInv, [ServicesNext]_servicesVars
  PROVE  (scene = "handover" => Ho!HandoverInv)'
<1>1. CASE UNCHANGED servicesVars
  BY <1>1 DEF servicesVars, Ho!HandoverInv, Ho!HandoverTypeOK, Ho!HandedOverOnce
<1>2. CASE ServicesNext
  <2> SUFFICES ASSUME scene' = "handover" PROVE Ho!HandoverInv'
    OBVIOUS
  <2>1. scene = "handover"
    BY <1>2 DEF ServicesNext
  <2>2. Ho!HandoverNext
    BY <1>2, <2>1 DEF ServicesNext, InParts
  <2>3. Ho!IsFiniteSet(Duty)
    BY ServicesAssumption DEF Ho!HandoverAssumption
  <2> QED
    BY <2>1, <2>2, <2>3, HandOverInv, HandConsumeInv, TellInv, HandCommitInv, HandOtherInv
       DEF Ho!HandoverNext
<1> QED
  BY <1>1, <1>2

\* A confirmed high-risk report makes one ticket, two tickets under one key did
\* not see each other, and every answer is true of its ticket, for any number
\* of requests, keys and staff (WorkOrderService._hand_over_high_risk).
THEOREM ReportsAreHandedOverOnce == ServicesSpec => []HandedOverOnce
<1>1. ServicesInit => (scene = "handover" => Ho!HandoverInv)
  <2> SUFFICES ASSUME Ho!HandoverInit PROVE Ho!HandoverInv
    BY DEF ServicesInit
  <2>1. DOMAIN part2 = {} /\ part2 \in Seq(Ho!TicketRow) /\ part6 = {}
    BY DEF Ho!HandoverInit
  <2> QED
    BY <2>1 DEF Ho!HandoverInit, Ho!HandoverInv, Ho!HandoverTypeOK, Ho!HandedOverOnce, Ho!Idle
<1>2. (scene = "handover" => Ho!HandoverInv) => HandedOverOnce
  BY DEF HandedOverOnce, Ho!HandoverInv
<1> QED
  BY <1>1, <1>2, HandoverStep, PTL DEF ServicesSpec

-----------------------------------------------------------------------------
(* The home page and its conversations: status, head, bound, raised, page, *)
(* requests, asked and written are the parts 1 to 8.                       *)

\* The rest of the state, without the heads and the writes.
LEMMA ChatTyped ==
  ASSUME Ct!ChatInv
  PROVE  /\ part1 \in [Conversation -> {"NONE", "ACTIVE", "CLOSED"}]
         /\ part2 \in [Conversation -> {NoHead} \cup Ct!Head]
         /\ part3 \subseteq House /\ part4 \in Nat /\ part7 \in Nat
         /\ part5 \in [Tab -> [active : Conversation, dialog : Ct!Card,
                               load : {"NO", "ASKED", "READY", "GONE"}, loaded : Ct!Card]]
         /\ \A r \in part6 : r \in Ct!Request(r.id)
         /\ part8 \subseteq [shown : Ct!Card, card : Ct!Card, times : Nat]
BY DEF Ct!ChatInv, Ct!ChatTypeOK

\* A request under way.
LEMMA RequestTyped ==
  ASSUME Ct!ChatInv, NEW r \in part6
  PROVE  /\ r \in Ct!Request(r.id) /\ r.conv \in Conversation /\ r.card \in Ct!Card
         /\ part2[r.conv] # NoHead => part2[r.conv] \in Ct!Head
BY ChatTyped DEF Ct!Request

\* A proposal that waits is one of those made so far, and no other one is the same.
LEMMA OpenIsOne ==
  ASSUME Ct!ChatInv, NEW c \in Conversation, Ct!HasOpen(c)
  PROVE  /\ part2[c].card.nth \in 1..part4
         /\ \A d \in Conversation \ {c} : Ct!HasOpen(d) => part2[d].card.nth # part2[c].card.nth
         /\ \A w \in part8 : w.card.nth # part2[c].card.nth
BY DEF Ct!ChatInv

\* A request is answered.
LEMMA ReplyTyped ==
  ASSUME Ct!ChatInv, NEW r \in part6, NEW answer \in {"ERROR", "OK", "TURN"},
         NEW card \in Ct!Card, Ct!Reply(r, answer, card)
  PROVE  \A q \in part6' : q \in Ct!Request(q.id)
<1> DEFINE n == [r EXCEPT !.reply = answer, !.card = card]
<1>1. r \in Ct!Request(r.id)
  BY RequestTyped
<1>2. n \in Ct!Request(r.id) /\ n.id = r.id
  BY <1>1 DEF Ct!Request
<1>3. part6' \subseteq part6 \cup {n}
  BY DEF Ct!Reply
<1> HIDE DEF n
<1> QED
  BY <1>2, <1>3, ChatTyped

\* Nothing is proposed or written: a head stays, or is no longer open or fresh.
LEMMA QuietInv ==
  ASSUME Ct!ChatInv,
         part1' \in [Conversation -> {"NONE", "ACTIVE", "CLOSED"}],
         part2' \in [Conversation -> {NoHead} \cup Ct!Head],
         \A c \in Conversation : part2'[c] = part2[c] \/
            /\ part2[c] # NoHead
            /\ part2'[c].house = part2[c].house /\ part2'[c].kind = part2[c].kind
            /\ part2'[c].from = part2[c].from
            /\ part2'[c].open => part2[c].open /\ part2'[c].card = part2[c].card,
         part3' \subseteq House, part4' = part4, part7' \in Nat, part8' = part8,
         part5' \in [Tab -> [active : Conversation, dialog : Ct!Card,
                             load : {"NO", "ASKED", "READY", "GONE"}, loaded : Ct!Card]],
         \A r \in part6' : r \in Ct!Request(r.id)
  PROVE  Ct!ChatInv'
<1>1. Ct!ChatTypeOK'
  BY ChatTyped DEF Ct!ChatTypeOK, Ct!Head, Ct!Card, Ct!Request
<1>2. \A c \in Conversation :
         Ct!HasOpen(c)' => Ct!HasOpen(c) /\ part2'[c].card = part2[c].card
  BY DEF Ct!HasOpen
<1>3. \A c \in Conversation : Ct!HasOpen(c)' =>
         /\ part2'[c].card.nth \in 1..part4'
         /\ \A d \in Conversation \ {c} : Ct!HasOpen(d)' => part2'[d].card.nth # part2'[c].card.nth
         /\ \A w \in part8' : w.card.nth # part2'[c].card.nth
  BY <1>2, OpenIsOne
<1>4. \A c \in Conversation :
         part2'[c] # NoHead /\ part2'[c].kind # "announcement" => part2'[c].from = {part2'[c].house}
  BY DEF Ct!ChatInv
<1>5. Ct!ConfirmedAsShown' /\ \A w \in part8' : w.card.nth <= part4'
  BY DEF Ct!ChatInv, Ct!ConfirmedAsShown
<1> QED
  BY <1>1, <1>3, <1>4, <1>5 DEF Ct!ChatInv

\* What a run that goes on from s may end in.
LEMMA AnswersOf ==
  ASSUME Ct!ChatInv, NEW s \in Ct!Head, ~s.open, NEW next \in Ct!Answers(s)
  PROVE  /\ next \in Ct!Head
         /\ next.kind = s.kind /\ next.from = s.from /\ next.house = s.house
         /\ next.open => next.card.nth = part4 + 1
<1>1. CASE next = s \/ next = [s EXCEPT !.asks = TRUE] \/ next = [s EXCEPT !.failed = TRUE]
  BY <1>1 DEF Ct!Head
<1>2. ASSUME NEW a \in Action, next = Ct!Waiting(s, a)
      PROVE  /\ next \in Ct!Head
             /\ next.kind = s.kind /\ next.from = s.from /\ next.house = s.house
             /\ next.card.nth = part4 + 1
  <2> DEFINE card == [action |-> a, nth |-> part4 + 1]
  <2>1. card \in Ct!Card /\ card.nth = part4 + 1
    BY ChatTyped DEF Ct!Card
  <2>2. next = [s EXCEPT !.card = card, !.open = TRUE, !.fresh = TRUE]
    BY <1>2 DEF Ct!Waiting
  <2> HIDE DEF card
  <2> QED
    BY <2>1, <2>2 DEF Ct!Head
<1> QED
  BY <1>1, <1>2 DEF Ct!Answers

\* A conversation accepts a new state.  What is written meanwhile was proposed
\* before, and not by another conversation that still waits.
LEMMA AcceptInv ==
  ASSUME Ct!ChatInv, NEW r \in part6, NEW s \in Ct!Head, ~s.open,
         s.kind # "announcement" => s.from = {s.house},
         NEW answer \in {"OK", "TURN"}, Ct!Accept(r, s, answer),
         part1' \in [Conversation -> {"NONE", "ACTIVE", "CLOSED"}],
         UNCHANGED <<part3, part5, part7>>,
         part8' \subseteq [shown : Ct!Card, card : Ct!Card, times : Nat],
         Ct!ConfirmedAsShown',
         \A w \in part8' :
            /\ w.card.nth <= part4
            /\ \A d \in Conversation \ {r.conv} : Ct!HasOpen(d) => part2[d].card.nth # w.card.nth
  PROVE  Ct!ChatInv'
<1> DEFINE c == r.conv
<1>1. PICK next \in Ct!Answers(s) :
         /\ part2' = [part2 EXCEPT ![c] = next]
         /\ part4' = IF next.open THEN part4 + 1 ELSE part4
         /\ Ct!Reply(r, answer, IF next.open THEN next.card ELSE Ct!NoCard)
  BY DEF Ct!Accept
<1>2. /\ next \in Ct!Head
      /\ next.kind = s.kind /\ next.from = s.from /\ next.house = s.house
      /\ next.open => next.card.nth = part4 + 1
  BY AnswersOf
<1>3. c \in Conversation /\ part4 \in Nat /\ part4' \in Nat
  BY <1>1, RequestTyped, ChatTyped
<1>4. part2'[c] = next /\ \A d \in Conversation \ {c} : part2'[d] = part2[d]
  BY <1>1, <1>3, ChatTyped
<1>5. \A q \in part6' : q \in Ct!Request(q.id)
  <2>1. next.card \in Ct!Card /\ Ct!NoCard \in Ct!Card
    BY <1>2 DEF Ct!Head, Ct!Card, Ct!NoCard
  <2>2. (IF next.open THEN next.card ELSE Ct!NoCard) \in Ct!Card
    BY <2>1
  <2> QED
    BY <1>1, <2>2, ReplyTyped
<1>6. Ct!ChatTypeOK'
  <2>1. part2' \in [Conversation -> {NoHead} \cup Ct!Head]
    BY <1>1, <1>2, ChatTyped
  <2> QED
    BY <1>3, <1>5, <2>1, ChatTyped DEF Ct!ChatTypeOK, Ct!Head, Ct!Card, Ct!Request
<1>7. /\ Ct!HasOpen(c)' => next.open /\ part4' = part4 + 1 /\ part2'[c].card.nth = part4 + 1
      /\ \A d \in Conversation \ {c} : Ct!HasOpen(d)' => Ct!HasOpen(d)
  BY <1>1, <1>2, <1>3, <1>4 DEF Ct!HasOpen
<1>8. \A d \in Conversation \ {c} :
         Ct!HasOpen(d)' => part2'[d] = part2[d] /\ part2[d].card.nth \in 1..part4
  BY <1>4, <1>7, OpenIsOne
<1>9. ASSUME NEW d \in Conversation, Ct!HasOpen(d)'
      PROVE  /\ part2'[d].card.nth \in 1..part4'
             /\ \A e \in Conversation \ {d} : Ct!HasOpen(e)' => part2'[e].card.nth # part2'[d].card.nth
             /\ \A w \in part8' : w.card.nth # part2'[d].card.nth
  <2>1. CASE d = c
    <3>1. part4' = part4 + 1 /\ part2'[d].card.nth = part4 + 1
      BY <2>1, <1>7, <1>9
    <3>2. \A e \in Conversation \ {d} : Ct!HasOpen(e)' => part2'[e].card.nth \in 1..part4
      BY <2>1, <1>8
    <3>3. \A w \in part8' : w.card.nth \in Nat /\ w.card.nth <= part4
      BY DEF Ct!Card
    <3> QED
      BY <3>1, <3>2, <3>3, <1>3
  <2>2. CASE d # c
    <3>1. part2'[d] = part2[d] /\ part2[d].card.nth \in 1..part4 /\ Ct!HasOpen(d)
      BY <2>2, <1>7, <1>8, <1>9
    <3>2. part2'[d].card.nth \in 1..part4'
      BY <3>1, <1>1, <1>3
    <3>3. ASSUME NEW e \in Conversation \ {d}, Ct!HasOpen(e)'
          PROVE  part2'[e].card.nth # part2'[d].card.nth
      <4>1. CASE e = c
        BY <4>1, <3>1, <3>3, <1>3, <1>7
      <4>2. CASE e # c
        <5>1. Ct!HasOpen(e) /\ part2'[e] = part2[e]
          BY <4>2, <3>3, <1>7, <1>8
        <5> QED
          BY <5>1, <3>1, <3>3, OpenIsOne
      <4> QED
        BY <4>1, <4>2
    <3>4. \A w \in part8' : w.card.nth # part2'[d].card.nth
      BY <2>2, <3>1
    <3> QED
      BY <3>2, <3>3, <3>4
  <2> QED
    BY <2>1, <2>2
<1>10. \A w \in part8' : w.card.nth <= part4'
  <2>1. \A w \in part8' : w.card.nth \in Nat
    BY DEF Ct!Card
  <2> QED
    BY <2>1, <1>1, <1>3
<1>11. \A d \in Conversation :
          part2'[d] # NoHead /\ part2'[d].kind # "announcement" => part2'[d].from = {part2'[d].house}
  BY <1>2, <1>4 DEF Ct!ChatInv
<1> QED
  BY <1>6, <1>9, <1>10, <1>11 DEF Ct!ChatInv

\* What is written stays as it was.
LEMMA WrittenBefore ==
  ASSUME Ct!ChatInv, part8' = part8
  PROVE  /\ part8' \subseteq [shown : Ct!Card, card : Ct!Card, times : Nat]
         /\ Ct!ConfirmedAsShown'
         /\ \A w \in part8' :
               /\ w.card.nth <= part4
               /\ \A d \in Conversation : Ct!HasOpen(d) => part2[d].card.nth # w.card.nth
<1>1. \A w \in part8 : \A d \in Conversation : Ct!HasOpen(d) => part2[d].card.nth # w.card.nth
  BY OpenIsOne
<1> QED
  BY <1>1, ChatTyped DEF Ct!ChatInv, Ct!ConfirmedAsShown

\* A graph run starts with nothing that waits, and rests on its own house unless
\* it is about an announcement.
LEMMA StartsOf ==
  ASSUME Ct!ChatInv, NEW c \in Conversation, NEW h \in House,
         NEW s \in Ct!Starts(part2[c], h)
  PROVE  /\ s \in Ct!Head /\ ~s.open
         /\ s.kind # "announcement" => s.from = {s.house}
<1> DEFINE prev == part2[c]
<1>1. PICK k \in Topic, text \in Said : s = Ct!Settled(h, k, Ct!StatedIn(prev, h, text, k))
  BY DEF Ct!Starts
<1> DEFINE from == Ct!StatedIn(prev, h, text, k)
<1>2. prev # NoHead => prev \in Ct!Head
  BY ChatTyped
<1>3. from \subseteq House
  BY <1>2 DEF Ct!StatedIn, Ct!Head
<1>4. k # "announcement" => from = {h}
  <2> SUFFICES ASSUME k # "announcement", prev # NoHead, Ct!CarriesOn(prev, h, text),
                      prev.kind # "announcement"
               PROVE  prev.from = {h}
    BY DEF Ct!StatedIn
  <2>1. prev.house = h
    BY DEF Ct!CarriesOn, Ct!AnnouncementFollowup, Ct!SameHouse
  <2> QED
    BY <2>1 DEF Ct!ChatInv
<1> HIDE DEF from
<1>5. Ct!NoCard \in Ct!Card
  BY DEF Ct!NoCard, Ct!Card
<1> QED
  BY <1>1, <1>3, <1>4, <1>5 DEF Ct!Settled, Ct!Head, from

\* A request that changes no head: it is refused, or answered with what is there.
LEMMA AnswerInv ==
  ASSUME Ct!ChatInv, NEW r \in part6, NEW answer \in {"ERROR", "OK", "TURN"},
         NEW card \in Ct!Card, Ct!Reply(r, answer, card),
         part1' \in [Conversation -> {"NONE", "ACTIVE", "CLOSED"}],
         UNCHANGED <<part2, part3, part4, part5, part7, part8>>
  PROVE  Ct!ChatInv'
<1>1. \A q \in part6' : q \in Ct!Request(q.id)
  BY ReplyTyped
<1> QED
  BY <1>1, ChatTyped, QuietInv

\* A message.
LEMMA SendMessageInv ==
  ASSUME Ct!ChatInv, NEW r \in part6, Ct!SendMessage(r) PROVE Ct!ChatInv'
<1>1. Ct!NoCard \in Ct!Card
  BY DEF Ct!NoCard, Ct!Card
<1>2. CASE Ct!Refused(r)
  <2>1. Ct!Reply(r, "ERROR", Ct!NoCard) /\ UNCHANGED <<part1, part2, part3, part4, part5, part7, part8>>
    BY <1>2 DEF Ct!SendMessage, Ct!Refused
  <2> QED
    BY <2>1, <1>1, ChatTyped, AnswerInv
<1>3. CASE ~Ct!Refused(r)
  <2> DEFINE prev == part2[r.conv]
  <2>1. /\ r.house \in part3 /\ UNCHANGED <<part3, part5, part7, part8>> /\ Ct!Begin(r.conv)
        /\ \/ /\ \E text \in Said : Ct!Represents(prev, r.house, text)
              /\ Ct!Reply(r, "TURN", prev.card) /\ UNCHANGED <<part2, part4>>
           \/ Ct!Reply(r, "TURN", Ct!NoCard) /\ UNCHANGED <<part2, part4>>
           \/ \E s \in Ct!Starts(prev, r.house) : Ct!Accept(r, s, "TURN")
    BY <1>3 DEF Ct!SendMessage
  <2>2. part1' \in [Conversation -> {"NONE", "ACTIVE", "CLOSED"}]
    BY <2>1, ChatTyped DEF Ct!Begin
  <2>3. CASE /\ \E text \in Said : Ct!Represents(prev, r.house, text)
             /\ Ct!Reply(r, "TURN", prev.card) /\ UNCHANGED <<part2, part4>>
    <3>1. prev.card \in Ct!Card
      BY <2>3, RequestTyped DEF Ct!Represents, Ct!Head
    <3> QED
      BY <2>1, <2>2, <2>3, <3>1, AnswerInv
  <2>4. CASE Ct!Reply(r, "TURN", Ct!NoCard) /\ UNCHANGED <<part2, part4>>
    BY <2>1, <2>2, <2>4, <1>1, AnswerInv
  <2>5. ASSUME NEW s \in Ct!Starts(prev, r.house), Ct!Accept(r, s, "TURN") PROVE Ct!ChatInv'
    <3>1. r.conv \in Conversation /\ r.house \in House
      BY <2>1, RequestTyped, ChatTyped
    <3>2. s \in Ct!Head /\ ~s.open /\ (s.kind # "announcement" => s.from = {s.house})
      BY <2>5, <3>1, StartsOf
    <3> QED
      BY <2>1, <2>2, <2>5, <3>2, WrittenBefore, AcceptInv
  <2> QED
    BY <2>1, <2>3, <2>4, <2>5
<1> QED
  BY <1>2, <1>3

\* A decision that is refused, which may void what waits.
LEMMA RefuseInv ==
  ASSUME Ct!ChatInv, NEW r \in part6, Ct!Refuse(r) PROVE Ct!ChatInv'
<1>1. Ct!NoCard \in Ct!Card
  BY DEF Ct!NoCard, Ct!Card
<1>2. \A q \in part6' : q \in Ct!Request(q.id)
  BY <1>1, ReplyTyped DEF Ct!Refuse
<1>3. CASE ~Ct!Voids(r)
  BY <1>2, <1>3, ChatTyped, QuietInv DEF Ct!Refuse
<1>4. CASE Ct!Voids(r)
  <2> DEFINE c == r.conv
             v == Ct!Void(part2[c])
  <2>1. c \in Conversation /\ part2[c] # NoHead /\ part2[c] \in Ct!Head
    BY <1>4, RequestTyped DEF Ct!Voids
  <2>2. v \in Ct!Head
    BY <2>1, <1>1 DEF Ct!Void, Ct!Head
  <2>3. ~v.open /\ v.house = part2[c].house /\ v.kind = part2[c].kind /\ v.from = part2[c].from
    BY <2>1 DEF Ct!Void, Ct!Head
  <2>4. part2' = [part2 EXCEPT ![c] = v]
    BY <1>4 DEF Ct!Refuse
  <2> HIDE DEF v
  <2> QED
    BY <1>2, <2>1, <2>2, <2>3, <2>4, ChatTyped, QuietInv DEF Ct!Refuse
<1> QED
  BY <1>3, <1>4

\* What waits is decided: the same state without it may be gone on from.
LEMMA DecidedHead ==
  ASSUME Ct!ChatInv, NEW r \in part6, Ct!Restorable(r)
  PROVE  LET s == part2[r.conv]
             filed == [Ct!Void(s) EXCEPT !.kind = IF @ = "repair" THEN "filed" ELSE @]
         IN \A next \in {filed, [s EXCEPT !.open = FALSE], Ct!Void(s)} :
               /\ next \in Ct!Head /\ ~next.open
               /\ next.kind # "announcement" => next.from = {next.house}
<1> DEFINE s == part2[r.conv]
           v == Ct!Void(s)
           filed == [v EXCEPT !.kind = IF @ = "repair" THEN "filed" ELSE @]
<1>1. r.conv \in Conversation /\ s # NoHead /\ s \in Ct!Head
  BY RequestTyped DEF Ct!Restorable
<1>2. s.kind # "announcement" => s.from = {s.house}
  BY <1>1 DEF Ct!ChatInv
<1>3. Ct!NoCard \in Ct!Card
  BY DEF Ct!NoCard, Ct!Card
<1>4. /\ v \in Ct!Head /\ ~v.open /\ v.kind = s.kind /\ v.from = s.from /\ v.house = s.house
  BY <1>1, <1>3 DEF Ct!Void, Ct!Head
<1>5. /\ [s EXCEPT !.open = FALSE] \in Ct!Head /\ ~[s EXCEPT !.open = FALSE].open
      /\ [s EXCEPT !.open = FALSE].kind = s.kind /\ [s EXCEPT !.open = FALSE].from = s.from
      /\ [s EXCEPT !.open = FALSE].house = s.house
  BY <1>1 DEF Ct!Head
<1> HIDE DEF v
<1>6. /\ filed \in Ct!Head /\ ~filed.open /\ filed.from = s.from /\ filed.house = s.house
      /\ filed.kind # "announcement" => s.kind # "announcement"
  BY <1>4 DEF Ct!Head
<1> HIDE DEF s, filed
<1>7. \A next \in {filed, [s EXCEPT !.open = FALSE], v} :
         /\ next \in Ct!Head /\ ~next.open
         /\ next.kind # "announcement" => next.from = {next.house}
  BY <1>2, <1>4, <1>5, <1>6
<1> QED
  BY <1>7 DEF s, v, filed

\* A confirmation: what is written is the one proposal that waited.
LEMMA ExecuteInv ==
  ASSUME Ct!ChatInv, NEW r \in part6, Ct!Execute(r) PROVE Ct!ChatInv'
<1> DEFINE s == part2[r.conv]
           filed == [Ct!Void(s) EXCEPT !.kind = IF @ = "repair" THEN "filed" ELSE @]
           w0 == [shown |-> r.card, card |-> s.card,
                  times |-> Ct!Cardinality({w \in part8 : w.card = s.card}) + 1]
<1>1. Ct!Restorable(r) /\ UNCHANGED <<part1, part3, part5, part7>>
  BY DEF Ct!Execute
<1>2. part1' \in [Conversation -> {"NONE", "ACTIVE", "CLOSED"}]
  BY <1>1, ChatTyped
<1>3. /\ r.conv \in Conversation /\ Ct!HasOpen(r.conv) /\ s \in Ct!Head
      /\ r.card \in Ct!Card /\ r.card.action = s.card.action
  BY <1>1, RequestTyped DEF Ct!Restorable, Ct!HasOpen
<1>4. \A next \in {filed, [s EXCEPT !.open = FALSE], Ct!Void(s)} :
         /\ next \in Ct!Head /\ ~next.open
         /\ next.kind # "announcement" => next.from = {next.house}
  BY <1>1, DecidedHead
<1>5. \/ part8' = part8 \cup {w0} /\ Ct!Accept(r, filed, "OK")
      \/ part8' = part8 /\ Ct!Accept(r, [s EXCEPT !.open = FALSE], "OK")
      \/ part8' = part8 /\ Ct!Accept(r, Ct!Void(s), "OK")
      \/ Ct!Refused(r)
  BY DEF Ct!Execute
<1> HIDE DEF filed
<1>6. CASE part8' = part8 \cup {w0} /\ Ct!Accept(r, filed, "OK")
  <2>1. \A w \in part8 : w.card # s.card
    BY <1>3, OpenIsOne
  <2>2. {w \in part8 : w.card = s.card} = {} /\ Cardinality({}) = 0
    BY <2>1, FS_EmptySet
  <2>3. Ct!Cardinality({w \in part8 : w.card = s.card}) = 0
    BY <2>2, SameCardinality
  <2>4. w0.shown.action = w0.card.action /\ w0.times = 1 /\ w0.card = s.card
        /\ w0 \in [shown : Ct!Card, card : Ct!Card, times : Nat]
    BY <1>3, <2>3 DEF Ct!Head
  <2>5. s.card.nth <= part4
        /\ \A d \in Conversation \ {r.conv} : Ct!HasOpen(d) => part2[d].card.nth # s.card.nth
    BY <1>3, OpenIsOne
  <2> HIDE DEF w0
  <2>6. part8' \subseteq [shown : Ct!Card, card : Ct!Card, times : Nat]
    BY <1>6, <2>4, ChatTyped
  <2>7. Ct!ConfirmedAsShown'
    BY <1>6, <2>4 DEF Ct!ChatInv, Ct!ConfirmedAsShown
  <2>8. \A w \in part8' :
           /\ w.card.nth <= part4
           /\ \A d \in Conversation \ {r.conv} : Ct!HasOpen(d) => part2[d].card.nth # w.card.nth
    <3>1. \A w \in part8 : w.card.nth <= part4
      BY DEF Ct!ChatInv
    <3>2. \A w \in part8 : \A d \in Conversation : Ct!HasOpen(d) => part2[d].card.nth # w.card.nth
      BY OpenIsOne
    <3> QED
      BY <1>6, <2>4, <2>5, <3>1, <3>2
  <2> QED
    BY <1>1, <1>2, <1>4, <1>6, <2>6, <2>7, <2>8, AcceptInv
<1>7. ASSUME NEW next \in {[s EXCEPT !.open = FALSE], Ct!Void(s)},
             part8' = part8, Ct!Accept(r, next, "OK")
      PROVE  Ct!ChatInv'
  <2>1. next \in Ct!Head /\ ~next.open /\ (next.kind # "announcement" => next.from = {next.house})
    BY <1>4, <1>7
  <2> QED
    BY <1>1, <1>2, <1>7, <2>1, WrittenBefore, AcceptInv
<1>8. CASE Ct!Refused(r)
  <2>1. Ct!Reply(r, "ERROR", Ct!NoCard) /\ UNCHANGED <<part1, part2, part4, part8>>
    BY <1>8 DEF Ct!Refused
  <2>2. Ct!NoCard \in Ct!Card
    BY DEF Ct!NoCard, Ct!Card
  <2> QED
    BY <1>1, <1>2, <2>1, <2>2, AnswerInv
<1> QED
  BY <1>5, <1>6, <1>7, <1>8

\* A cancellation.
LEMMA CancelInv ==
  ASSUME Ct!ChatInv, NEW r \in part6, Ct!Cancel(r) PROVE Ct!ChatInv'
<1> DEFINE next == Ct!Void(part2[r.conv])
<1>1. /\ Ct!Restorable(r) /\ UNCHANGED <<part1, part3, part5, part7, part8>>
      /\ Ct!Accept(r, next, "OK")
  BY DEF Ct!Cancel
<1>2. next \in Ct!Head /\ ~next.open /\ (next.kind # "announcement" => next.from = {next.house})
  BY <1>1, DecidedHead
<1>3. part1' \in [Conversation -> {"NONE", "ACTIVE", "CLOSED"}]
  BY <1>1, ChatTyped
<1> HIDE DEF next
<1> QED
  BY <1>1, <1>2, <1>3, WrittenBefore, AcceptInv

\* Time passes, a binding is revoked, a conversation is closed.
LEMMA ChatEventInv ==
  ASSUME Ct!ChatInv,
         (\E c \in Conversation : Ct!Expire(c) \/ Ct!Close(c)) \/ \E h \in House : Ct!Revoke(h)
  PROVE  Ct!ChatInv'
<1>1. ASSUME NEW c \in Conversation, Ct!Expire(c) PROVE Ct!ChatInv'
  <2> DEFINE stale == [part2[c] EXCEPT !.fresh = FALSE]
  <2>1. part2[c] # NoHead /\ part2[c] \in Ct!Head
    BY <1>1, ChatTyped DEF Ct!Expire
  <2>2. /\ stale \in Ct!Head /\ stale.house = part2[c].house /\ stale.kind = part2[c].kind
        /\ stale.from = part2[c].from /\ stale.open = part2[c].open /\ stale.card = part2[c].card
    BY <2>1 DEF Ct!Head
  <2>3. part2' = [part2 EXCEPT ![c] = stale]
    BY <1>1 DEF Ct!Expire
  <2> HIDE DEF stale
  <2>4. /\ part2' \in [Conversation -> {NoHead} \cup Ct!Head]
        /\ \A d \in Conversation : part2'[d] = IF d = c THEN stale ELSE part2[d]
    BY <2>2, <2>3, ChatTyped
  <2>5. UNCHANGED <<part1, part3, part4, part5, part6, part7, part8>>
    BY <1>1 DEF Ct!Expire
  <2> QED
    BY <2>1, <2>2, <2>4, <2>5, ChatTyped, QuietInv
<1>2. ASSUME NEW c \in Conversation, Ct!Close(c) PROVE Ct!ChatInv'
  BY <1>2, ChatTyped, QuietInv DEF Ct!Close
<1>3. ASSUME NEW h \in House, Ct!Revoke(h) PROVE Ct!ChatInv'
  <2>1. part3' \subseteq House
    BY <1>3, ChatTyped DEF Ct!Revoke
  <2> QED
    BY <1>3, <2>1, ChatTyped, QuietInv DEF Ct!Revoke
<1> QED
  BY <1>1, <1>2, <1>3

\* A tab sends a message or a decision.
LEMMA AskInv ==
  ASSUME Ct!ChatInv, NEW t \in Tab, NEW kind \in {"SAY", "CONFIRM", "CANCEL"},
         NEW h \in House \cup {NoHouse}, NEW card \in Ct!Card, Ct!Ask(t, kind, h, card),
         UNCHANGED <<part1, part2, part3, part4, part5, part8>>
  PROVE  Ct!ChatInv'
<1> DEFINE q == [id |-> Ct!NewId, tab |-> t, kind |-> kind, conv |-> part5[t].active,
                 house |-> h, card |-> card, awaited |-> TRUE, reply |-> "NONE"]
<1>1. part5[t].active \in Conversation
  BY ChatTyped
<1>2. q \in Ct!Request(q.id)
  BY <1>1 DEF Ct!Request
<1>3. part6' = part6 \cup {q} /\ part7' = part7 + 1
  BY DEF Ct!Ask
<1> HIDE DEF q
<1>4. \A r \in part6' : r \in Ct!Request(r.id)
  BY <1>2, <1>3, ChatTyped
<1> QED
  BY <1>3, <1>4, ChatTyped, QuietInv

\* What a tab does by itself: it shows, loads and waits no longer.
LEMMA PageInv ==
  ASSUME Ct!ChatInv, UNCHANGED <<part1, part2, part3, part4, part7, part8>>,
         part5' \in [Tab -> [active : Conversation, dialog : Ct!Card,
                             load : {"NO", "ASKED", "READY", "GONE"}, loaded : Ct!Card]],
         \A r \in part6' : r \in Ct!Request(r.id)
  PROVE  Ct!ChatInv'
BY ChatTyped, QuietInv

\* A tab sends, receives and gives up.
LEMMA TabRequestInv ==
  ASSUME Ct!ChatInv, NEW t \in Tab,
         \/ Ct!Say(t) \/ Ct!Decide(t, "CONFIRM") \/ Ct!Decide(t, "CANCEL")
         \/ \E r \in part6 : Ct!Receive(t, r) \/ Ct!GiveUp(t, r)
  PROVE  Ct!ChatInv'
<1>1. Ct!NoCard \in Ct!Card /\ part5[t].dialog \in Ct!Card
  BY ChatTyped DEF Ct!NoCard, Ct!Card
<1>2. CASE Ct!Say(t)
  <2>1. PICK h \in part3 : Ct!Ask(t, "SAY", h, Ct!NoCard)
    BY <1>2 DEF Ct!Say
  <2>2. h \in House
    BY ChatTyped
  <2> QED
    BY <1>1, <1>2, <2>1, <2>2, AskInv DEF Ct!Say
<1>3. CASE Ct!Decide(t, "CONFIRM") \/ Ct!Decide(t, "CANCEL")
  BY <1>1, <1>3, AskInv DEF Ct!Decide
<1>4. ASSUME NEW r \in part6, Ct!Receive(t, r) PROVE Ct!ChatInv'
  <2>1. r.card \in Ct!Card
    BY RequestTyped
  <2>2. \/ part5' = part5 \/ part5' = [part5 EXCEPT ![t].dialog = Ct!NoCard]
        \/ part5' = [part5 EXCEPT ![t].dialog = r.card]
    BY <1>4 DEF Ct!Receive
  <2>3. part5' \in [Tab -> [active : Conversation, dialog : Ct!Card,
                            load : {"NO", "ASKED", "READY", "GONE"}, loaded : Ct!Card]]
    BY <1>1, <2>1, <2>2, ChatTyped
  <2> QED
    BY <1>4, <2>3, ChatTyped, PageInv DEF Ct!Receive
<1>5. ASSUME NEW r \in part6, Ct!GiveUp(t, r) PROVE Ct!ChatInv'
  <2> DEFINE n == [r EXCEPT !.awaited = FALSE]
  <2>1. n \in Ct!Request(n.id)
    BY RequestTyped DEF Ct!Request
  <2>2. part6' \subseteq part6 \cup {n}
    BY <1>5 DEF Ct!GiveUp
  <2> HIDE DEF n
  <2>3. \A q \in part6' : q \in Ct!Request(q.id)
    BY <2>1, <2>2, ChatTyped
  <2> QED
    BY <1>5, <2>3, ChatTyped, PageInv DEF Ct!GiveUp
<1> QED
  BY <1>2, <1>3, <1>4, <1>5

\* A page keeps its shape.
LEMMA PageFields ==
  ASSUME NEW Page, Page = [active : Conversation, dialog : Ct!Card,
                           load : {"NO", "ASKED", "READY", "GONE"}, loaded : Ct!Card],
         NEW p \in [Tab -> Page], NEW t \in Tab
  PROVE  /\ \A c \in Conversation : [p EXCEPT ![t].active = c] \in [Tab -> Page]
         /\ \A d \in Ct!Card : [p EXCEPT ![t].dialog = d] \in [Tab -> Page]
         /\ \A l \in {"NO", "ASKED", "READY", "GONE"} : [p EXCEPT ![t].load = l] \in [Tab -> Page]
         /\ \A d \in Ct!Card : [p EXCEPT ![t].loaded = d] \in [Tab -> Page]
<1>1. p[t] \in Page
  OBVIOUS
<1>2. ASSUME NEW q \in Page PROVE [p EXCEPT ![t] = q] \in [Tab -> Page]
  OBVIOUS
<1>3. /\ \A c \in Conversation : [p[t] EXCEPT !.active = c] \in Page
      /\ \A d \in Ct!Card : [p[t] EXCEPT !.dialog = d] \in Page
      /\ \A l \in {"NO", "ASKED", "READY", "GONE"} : [p[t] EXCEPT !.load = l] \in Page
      /\ \A d \in Ct!Card : [p[t] EXCEPT !.loaded = d] \in Page
  BY <1>1
<1> QED
  BY <1>2, <1>3

\* It shows another conversation, loads it, or is opened again.
LEMMA TabPageInv ==
  ASSUME Ct!ChatInv, NEW t \in Tab,
         \/ \E c \in Conversation : Ct!SelectConversation(t, c)
         \/ Ct!StartNewConversation(t) \/ Ct!AnswerLoad(t) \/ Ct!ShowLoad(t) \/ Ct!Reload(t)
  PROVE  Ct!ChatInv'
<1> DEFINE Page == [active : Conversation, dialog : Ct!Card,
                    load : {"NO", "ASKED", "READY", "GONE"}, loaded : Ct!Card]
<1>1. Ct!NoCard \in Ct!Card /\ part5 \in [Tab -> Page]
  BY ChatTyped DEF Ct!NoCard, Ct!Card
<1>2. ASSUME NEW c \in Conversation, NEW dialog \in Ct!Card, Ct!Open(t, c, dialog)
      PROVE  part5' \in [Tab -> Page]
  <2> DEFINE p1 == [part5 EXCEPT ![t].active = c]
             p2 == [p1 EXCEPT ![t].dialog = dialog]
             p3 == [p2 EXCEPT ![t].load = "ASKED"]
  <2>1. part5' = [p3 EXCEPT ![t].loaded = Ct!NoCard]
    BY <1>2 DEF Ct!Open
  <2>2. p1 \in [Tab -> Page]
    BY <1>1, PageFields
  <2> HIDE DEF p1
  <2>3. p2 \in [Tab -> Page]
    BY <2>2, PageFields
  <2> HIDE DEF p2
  <2>4. p3 \in [Tab -> Page]
    BY <2>3, PageFields
  <2> HIDE DEF p3
  <2> QED
    BY <1>1, <2>1, <2>4, PageFields
<1>3. ASSUME NEW c \in Conversation, Ct!SelectConversation(t, c) PROVE Ct!ChatInv'
  <2>1. part5[t].dialog \in Ct!Card
    BY <1>1
  <2> QED
    BY <1>2, <1>3, <2>1, ChatTyped, PageInv DEF Ct!SelectConversation
<1>4. CASE Ct!StartNewConversation(t)
  <2>1. PICK c \in Conversation : Ct!Open(t, c, Ct!NoCard)
    BY <1>4 DEF Ct!StartNewConversation, Ct!Unused
  <2> QED
    BY <1>1, <1>2, <1>4, <2>1, ChatTyped, PageInv DEF Ct!StartNewConversation
<1>5. CASE Ct!AnswerLoad(t)
  <2> DEFINE h == part2[part5[t].active]
             got == IF h # NoHead /\ h.open THEN h.card ELSE Ct!NoCard
             load == IF part1[part5[t].active] = "ACTIVE" THEN "READY" ELSE "GONE"
  <2>1. h \in {NoHead} \cup Ct!Head
    BY <1>1, ChatTyped
  <2>2. got \in Ct!Card /\ load \in {"READY", "GONE"}
    BY <1>1, <2>1 DEF Ct!Head
  <2>3. part5' = [part5 EXCEPT ![t].load = load, ![t].loaded = got]
    BY <1>5 DEF Ct!AnswerLoad
  <2> HIDE DEF got, load
  <2>4. part5' \in [Tab -> Page]
    <3> DEFINE p1 == [part5 EXCEPT ![t].load = load]
    <3>1. p1 \in [Tab -> Page]
      BY <1>1, <2>2, PageFields
    <3>2. part5' = [p1 EXCEPT ![t].loaded = got]
      BY <2>3
    <3> HIDE DEF p1
    <3> QED
      BY <2>2, <3>1, <3>2, PageFields
  <2> QED
    BY <1>5, <2>4, ChatTyped, PageInv DEF Ct!AnswerLoad
<1>6. CASE Ct!ShowLoad(t)
  <2>1. part5' \in [Tab -> Page]
    <3>1. CASE part5' = [part5 EXCEPT ![t].dialog = part5[t].loaded, ![t].load = "NO",
                                      ![t].loaded = Ct!NoCard]
      <4> DEFINE p1 == [part5 EXCEPT ![t].dialog = part5[t].loaded]
                 p2 == [p1 EXCEPT ![t].load = "NO"]
      <4>1. part5' = [p2 EXCEPT ![t].loaded = Ct!NoCard]
        BY <3>1
      <4>2. p1 \in [Tab -> Page]
        BY <1>1, PageFields
      <4> HIDE DEF p1
      <4>3. p2 \in [Tab -> Page]
        BY <4>2, PageFields
      <4> HIDE DEF p2
      <4> QED
        BY <1>1, <4>1, <4>3, PageFields
    <3>2. ASSUME NEW c \in Ct!Unused,
                 part5' = [part5 EXCEPT ![t].active = c, ![t].dialog = Ct!NoCard,
                                        ![t].load = "NO", ![t].loaded = Ct!NoCard]
          PROVE  part5' \in [Tab -> Page]
      <4> DEFINE p1 == [part5 EXCEPT ![t].active = c]
                 p2 == [p1 EXCEPT ![t].dialog = Ct!NoCard]
                 p3 == [p2 EXCEPT ![t].load = "NO"]
      <4>1. part5' = [p3 EXCEPT ![t].loaded = Ct!NoCard]
        BY <3>2
      <4>2. p1 \in [Tab -> Page]
        BY <1>1, PageFields DEF Ct!Unused
      <4> HIDE DEF p1
      <4>3. p2 \in [Tab -> Page]
        BY <1>1, <4>2, PageFields
      <4> HIDE DEF p2
      <4>4. p3 \in [Tab -> Page]
        BY <4>3, PageFields
      <4> HIDE DEF p3
      <4> QED
        BY <1>1, <4>1, <4>4, PageFields
    <3> QED
      BY <1>6, <3>1, <3>2 DEF Ct!ShowLoad
  <2> QED
    BY <1>6, <2>1, ChatTyped, PageInv DEF Ct!ShowLoad
<1>7. CASE Ct!Reload(t)
  <2>1. part5[t].active \in Conversation
    BY <1>1
  <2>2. part5' \in [Tab -> Page]
    BY <1>1, <1>2, <1>7, <2>1 DEF Ct!Reload
  <2>3. \A r \in part6 : [r EXCEPT !.awaited = FALSE] \in Ct!Request(r.id)
                         /\ [r EXCEPT !.awaited = FALSE].id = r.id
    BY RequestTyped DEF Ct!Request
  <2>4. \A q \in part6' : q \in part6 \/ \E r \in part6 : q = [r EXCEPT !.awaited = FALSE]
    BY <1>7 DEF Ct!Reload
  <2>5. ASSUME NEW q \in part6' PROVE q \in Ct!Request(q.id)
    <3>1. CASE q \in part6
      BY <3>1, ChatTyped
    <3>2. ASSUME NEW r \in part6, q = [r EXCEPT !.awaited = FALSE] PROVE q \in Ct!Request(q.id)
      BY <2>3, <3>2, Zenon
    <3> QED
      BY <2>4, <3>1, <3>2
  <2> QED
    BY <1>7, <2>2, <2>5, ChatTyped, PageInv DEF Ct!Reload
<1> QED
  BY <1>3, <1>4, <1>5, <1>6, <1>7

\* No step and no other scene disturbs it.
LEMMA ChatStep ==
  ASSUME scene \in {"screens", "dialogue"} => Ct!ChatInv, [ServicesNext]_servicesVars
  PROVE  (scene \in {"screens", "dialogue"} => Ct!ChatInv)'
<1>1. CASE UNCHANGED servicesVars
  BY <1>1 DEF servicesVars, Ct!ChatInv, Ct!ChatTypeOK, Ct!Head, Ct!Card, Ct!Request, Ct!HasOpen,
              Ct!ConfirmedAsShown
<1>2. CASE ServicesNext
  <2> SUFFICES ASSUME scene' \in {"screens", "dialogue"} PROVE Ct!ChatInv'
    OBVIOUS
  <2>1. scene \in {"screens", "dialogue"}
    BY <1>2 DEF ServicesNext
  <2>2. Ct!ChatNext
    BY <1>2, <2>1 DEF ServicesNext, InParts
  <2> QED
    BY <2>1, <2>2, SendMessageInv, RefuseInv, ExecuteInv, CancelInv, ChatEventInv,
       TabRequestInv, TabPageInv DEF Ct!ChatNext
<1> QED
  BY <1>1, <1>2

\* Nothing exists before the first message.
LEMMA ChatInitInv == Ct!ChatInit => Ct!ChatInv
<1> SUFFICES ASSUME Ct!ChatInit PROVE Ct!ChatInv
  OBVIOUS
<1>1. Ct!NoCard \in Ct!Card
  BY DEF Ct!NoCard, Ct!Card
<1>2. \A c \in Conversation : part2[c] = NoHead
  BY DEF Ct!ChatInit
<1>3. Ct!ChatTypeOK
  BY <1>1 DEF Ct!ChatInit, Ct!ChatTypeOK
<1>4. part8 = {} /\ \A c \in Conversation : ~Ct!HasOpen(c)
  BY <1>2 DEF Ct!ChatInit, Ct!HasOpen
<1> QED
  BY <1>2, <1>3, <1>4 DEF Ct!ChatInv, Ct!ConfirmedAsShown

\* What is executed is what the dialog showed, and once, for any number of tabs,
\* conversations and requests under way, answered in any order
\* (recovery.restore, HomePage.resolveConfirmation).
THEOREM WrittenAsShown == ServicesSpec => []ConfirmedAsShown
<1>1. ServicesInit => (scene \in {"screens", "dialogue"} => Ct!ChatInv)
  BY ChatInitInv DEF ServicesInit
<1>2. (scene \in {"screens", "dialogue"} => Ct!ChatInv) => ConfirmedAsShown
  BY DEF Ct!ChatInv, ConfirmedAsShown
<1> QED
  BY <1>1, <1>2, ChatStep, PTL DEF ServicesSpec

\* What a repair rests on was said about its house, for any houses, messages and
\* kinds of conversation (domain_continuation._build_continuation).
THEOREM SlotsRestOnTheirHouse == ServicesSpec => []SlotsStayInTheirHouse
<1>1. ServicesInit => (scene \in {"screens", "dialogue"} => Ct!ChatInv)
  BY ChatInitInv DEF ServicesInit
<1>2. (scene \in {"screens", "dialogue"} => Ct!ChatInv) => SlotsStayInTheirHouse
  BY DEF Ct!ChatInv, SlotsStayInTheirHouse, Ct!SlotsStayInTheirHouse
<1> QED
  BY <1>1, <1>2, ChatStep, PTL DEF ServicesSpec

-----------------------------------------------------------------------------
(* Streaming: accepting, slots, drain, producer, buffer, reader and got    *)
(* are the parts 1 to 7.                                                   *)

\* A set of numbers that is not empty has a least element.
LEMMA LeastOf ==
  ASSUME NEW T, T \subseteq Nat, T # {}
  PROVE  \E n \in T : \A m \in T : n <= m
<1>1. PICK n \in T : \A m \in T : <<m, n>> \notin OpToRel(<, Nat)
  BY NatLessThanWellFounded, WFMin
<1>2. \A m \in T : ~(m < n)
  BY <1>1 DEF OpToRel
<1> QED
  BY <1>2

\* A sequence without its kth element.
LEMMA WithoutNth ==
  ASSUME NEW S, NEW seq \in Seq(S), NEW k \in 1..Len(seq)
  PROVE  LET w == SubSeq(seq, 1, k - 1) \o SubSeq(seq, k + 1, Len(seq)) IN
         /\ w \in Seq(S) /\ Len(w) = Len(seq) - 1
         /\ \A i \in 1..Len(w) : w[i] = IF i < k THEN seq[i] ELSE seq[i + 1]
<1> DEFINE a == SubSeq(seq, 1, k - 1)
           b == SubSeq(seq, k + 1, Len(seq))
           w == a \o b
<1>1. Len(seq) \in Nat /\ k \in Nat /\ DOMAIN seq = 1..Len(seq)
  BY LenProperties
<1>2. a \in Seq(S) /\ Len(a) = k - 1 /\ \A i \in 1..k - 1 : a[i] = seq[i]
  <2>1. \A i \in 1..k - 1 : seq[i] \in S
    BY <1>1
  <2> QED
    BY <1>1, <2>1, SubSeqProperties
<1>3. b \in Seq(S) /\ Len(b) = Len(seq) - k /\ \A i \in 1..Len(seq) - k : b[i] = seq[k + i]
  <2>1. \A i \in k + 1..Len(seq) : seq[i] \in S
    BY <1>1
  <2>2. /\ b \in Seq(S)
        /\ Len(b) = IF k + 1 <= Len(seq) THEN Len(seq) - (k + 1) + 1 ELSE 0
        /\ \A i \in 1..Len(seq) - (k + 1) + 1 : b[i] = seq[k + 1 + i - 1]
    BY <1>1, <2>1, SubSeqProperties
  <2> HIDE DEF b
  <2>3. ASSUME NEW i \in 1..Len(seq) - k PROVE b[i] = seq[k + i]
    <3>1. i \in 1..Len(seq) - (k + 1) + 1 /\ k + 1 + i - 1 = k + i
      BY <1>1
    <3> QED
      BY <2>2, <3>1
  <2>4. Len(b) = Len(seq) - k
    <3>1. \A n \in Nat : k \in 1..n => (IF k + 1 <= n THEN n - (k + 1) + 1 ELSE 0) = n - k
      OBVIOUS
    <3> QED
      BY <1>1, <2>2, <3>1
  <2> QED
    BY <2>2, <2>3, <2>4
<1> HIDE DEF a, b
<1>4. w \in Seq(S) /\ Len(w) = Len(seq) - 1
  <2>1. w \in Seq(S) /\ Len(w) = Len(a) + Len(b)
    BY <1>2, <1>3, ConcatProperties
  <2> QED
    BY <1>1, <1>2, <1>3, <2>1
<1>5. \A i \in 1..Len(w) : w[i] = IF i <= k - 1 THEN a[i] ELSE b[i - (k - 1)]
  BY <1>1, <1>2, <1>3, ConcatProperties
<1>6. ASSUME NEW i \in 1..Len(w) PROVE w[i] = IF i < k THEN seq[i] ELSE seq[i + 1]
  <2>1. CASE i < k
    BY <2>1, <1>1, <1>2, <1>4, <1>5
  <2>2. CASE ~(i < k)
    <3>1. i - (k - 1) \in 1..Len(seq) - k /\ k + (i - (k - 1)) = i + 1
      BY <2>2, <1>1, <1>4
    <3>2. b[i - (k - 1)] = seq[i + 1]
      BY <3>1, <1>3
    <3>3. ~(i <= k - 1)
      BY <2>2, <1>1, <1>4
    <3> QED
      BY <2>2, <3>2, <3>3, <1>5
  <2> QED
    BY <2>1, <2>2
<1> HIDE DEF w
<1> QED
  BY <1>4, <1>6 DEF w, a, b

\* What makes room for an event keeps all but one progress event.
LEMMA WithoutOneKeeps ==
  ASSUME NEW items \in Seq(St!Event)
  PROVE  LET kept == St!WithoutOneProgress(items) IN
         /\ kept \in Seq(St!Event)
         /\ items = <<>> => kept = <<>>
         /\ \A i \in DOMAIN kept :
               \E j \in DOMAIN items : kept[i] = items[j] /\ (j = 1 => i = 1)
<1> DEFINE kept == St!WithoutOneProgress(items)
           I == {i \in 1..Len(items) : St!IsProgress(items[i])}
<1>0. Len(items) \in Nat /\ DOMAIN items = 1..Len(items) /\ (items = <<>> => Len(items) = 0)
  BY LenProperties, EmptySeq
<1>1. CASE I = {}
  <2>1. kept = items
    BY <1>0, <1>1 DEF St!WithoutOneProgress
  <2> QED
    BY <2>1
<1>2. CASE I # {}
  <2> DEFINE k == St!Min(I)
  <2>1. I \subseteq Nat
    BY <1>0
  <2>2. k \in I
    <3> HIDE DEF I
    <3> QED
      BY <1>2, <2>1, LeastOf DEF St!Min
  <2>3. St!SelectInSeq(items, St!IsProgress) = k
    BY <1>2 DEF St!SelectInSeq
  <2> HIDE DEF k
  <2>4. k \in 1..Len(items)
    BY <2>2
  <2>5. kept = SubSeq(items, 1, k - 1) \o SubSeq(items, k + 1, Len(items))
    BY <1>0, <1>2, <2>3 DEF St!WithoutOneProgress, St!RemoveAt
  <2> HIDE DEF kept
  <2>6. /\ kept \in Seq(St!Event) /\ Len(kept) = Len(items) - 1
        /\ \A i \in 1..Len(kept) : kept[i] = IF i < k THEN items[i] ELSE items[i + 1]
    BY <2>4, <2>5, WithoutNth
  <2>7. items # <<>>
    BY <1>0, <2>4
  <2>8. ASSUME NEW i \in DOMAIN kept
        PROVE  \E j \in DOMAIN items : kept[i] = items[j] /\ (j = 1 => i = 1)
    <3>1. i \in 1..Len(items) - 1
      BY <2>6, LenProperties
    <3>2. CASE i < k
      BY <1>0, <2>6, <3>1, <3>2
    <3>3. CASE ~(i < k)
      <4>1. i + 1 \in DOMAIN items /\ i + 1 # 1 /\ kept[i] = items[i + 1]
        BY <1>0, <2>6, <3>1, <3>3
      <4> QED
        BY <4>1
    <3> QED
      BY <3>2, <3>3
  <2> QED
    BY <2>6, <2>7, <2>8 DEF kept
<1> QED
  BY <1>1, <1>2

\* An event is put, or dropped: a progress event for which there is no room, and
\* whatever comes after the client left.
LEMMA PutEffect ==
  ASSUME NEW b \in St!Buffer, NEW e \in St!Event
  PROVE  /\ St!Put(b, e) \in St!Buffer
         /\ St!Put(b, e).finished = b.finished /\ St!Put(b, e).closed = b.closed
         /\ b.closed => St!Put(b, e) = b
         /\ ~b.closed => \/ e = "PROGRESS" /\ St!Put(b, e) = b
                         \/ \E kept \in Seq(St!Event) :
                               /\ St!Put(b, e).items = Append(kept, e)
                               /\ b.items = <<>> => kept = <<>>
                               /\ \A i \in DOMAIN kept : \E j \in DOMAIN b.items :
                                     kept[i] = b.items[j] /\ (j = 1 => i = 1)
<1> DEFINE p == St!Put(b, e)
<1>1. b.items \in Seq(St!Event) /\ b.finished \in BOOLEAN /\ b.closed \in BOOLEAN
  BY DEF St!Buffer
<1>2. CASE b.closed \/ (St!Full(b) /\ St!IsProgress(e))
  <2>1. p = b
    BY <1>2 DEF St!Put
  <2> QED
    BY <2>1, <1>2 DEF St!IsProgress
<1>3. CASE ~(b.closed \/ (St!Full(b) /\ St!IsProgress(e)))
  <2> DEFINE kept == IF St!Full(b) THEN St!WithoutOneProgress(b.items) ELSE b.items
  <2>1. p = [b EXCEPT !.items = Append(kept, e)]
    BY <1>3 DEF St!Put
  <2>2. /\ kept \in Seq(St!Event) /\ (b.items = <<>> => kept = <<>>)
        /\ \A i \in DOMAIN kept : \E j \in DOMAIN b.items :
              kept[i] = b.items[j] /\ (j = 1 => i = 1)
    BY <1>1, WithoutOneKeeps
  <2> HIDE DEF kept
  <2>3. Append(kept, e) \in Seq(St!Event)
    BY <2>2, AppendProperties
  <2>4. p \in St!Buffer /\ p.items = Append(kept, e) /\ p.finished = b.finished /\ p.closed = b.closed
    BY <2>1, <2>3 DEF St!Buffer
  <2> QED
    BY <1>3, <2>2, <2>4
<1> QED
  BY <1>2, <1>3

\* The state of one request.
LEMMA StreamTyped ==
  ASSUME St!StreamInv, NEW s \in Streamed
  PROVE  /\ part4[s] \in St!Produce /\ part5[s] \in St!Buffer
         /\ part5[s].items \in Seq(St!Event)
         /\ part6[s] \in {"NONE", "READING", "GONE", "ENDED"}
         /\ part7[s] \in Seq(St!Event \ {"PROGRESS"})
         /\ St!ToldOf(s) /\ St!InStep(s)
         /\ St!Active(s) => s \in part2 /\ part3 # "DRAINED"
BY DEF St!StreamInv, St!StreamTypeOK, St!Buffer, St!DrainMeansIdle

\* A step of one request leaves the others as they are.
LEMMA OneStreamMoves ==
  ASSUME St!StreamInv, NEW s \in Streamed, St!StreamTypeOK',
         \A u \in Streamed \ {s} : /\ part4'[u] = part4[u] /\ part5'[u] = part5[u]
                                   /\ part6'[u] = part6[u] /\ part7'[u] = part7[u],
         part1' = part1, part3' = part3, \A u \in part2 \ {s} : u \in part2',
         St!Active(s)' => s \in part2' /\ part3 # "DRAINED",
         St!ToldOf(s)', St!InStep(s)'
  PROVE  St!StreamInv'
<1>3. ASSUME NEW u \in Streamed PROVE St!ToldOf(u)' /\ St!InStep(u)'
  <2>1. CASE u # s
    <3>1. St!ToldOf(u) /\ St!InStep(u)
      BY DEF St!StreamInv
    <3>2. St!ToldOf(u)'
      BY <2>1, <3>1 DEF St!ToldOf, St!TerminalLast, St!StartedFirst, St!EndsWith
    <3>3. St!InStep(u)'
      BY <2>1, <3>1 DEF St!InStep
    <3> QED
      BY <3>2, <3>3
  <2> QED
    BY <2>1
<1>4. ASSUME NEW u \in Streamed, St!Active(u)' PROVE u \in part2' /\ part3 # "DRAINED"
  <2>1. CASE u # s
    <3>1. St!Active(u)
      BY <1>4, <2>1 DEF St!Active
    <3> QED
      BY <2>1, <3>1, StreamTyped
  <2> QED
    BY <2>1, <1>4
<1> QED
  BY <1>3, <1>4 DEF St!StreamInv, St!DrainMeansIdle

\* Nothing terminal is on its way before it is told.
LEMMA UntoldIsOpen ==
  ASSUME St!StreamInv, NEW s \in Streamed, part4[s].told = "NOTHING"
  PROVE  /\ \A i \in DOMAIN part7[s] : part7[s][i] \notin St!Terminal
         /\ \A i \in DOMAIN part5[s].items : part5[s].items[i] \notin St!Terminal
BY StreamTyped DEF St!ToldOf, St!TerminalLast, St!Terminal

\* An event is put while nothing terminal was: what is sent and what waits is in
\* order, and the terminal one is the last.
LEMMA PutTold ==
  ASSUME St!StreamInv, NEW s \in Streamed, NEW e \in St!Event,
         NEW told \in {"NOTHING"} \cup St!Terminal,
         part4[s].told = "NOTHING",
         IF e \in St!Terminal THEN told = e ELSE told = "NOTHING",
         e = "STARTED" => part7[s] = <<>> /\ part5[s].items = <<>>,
         part5'[s] = St!Put(part5[s], e), part7'[s] = part7[s], part4'[s].told = told
  PROVE  St!ToldOf(s)'
<1> DEFINE items == part5[s].items
           after == part5'[s].items
<1>1. /\ part5[s] \in St!Buffer /\ items \in Seq(St!Event) /\ part7[s] \in Seq(St!Event \ {"PROGRESS"})
      /\ St!ToldOf(s)
  BY StreamTyped
<1>2. /\ \A i \in DOMAIN part7[s] : part7[s][i] \notin St!Terminal
      /\ \A i \in DOMAIN items : items[i] \notin St!Terminal
  BY UntoldIsOpen
<1>3. St!StartedFirst(part7[s])
      /\ St!StartedFirst(items) /\ ((\E i \in DOMAIN items : items[i] = "STARTED") => part7[s] = <<>>)
  BY <1>1 DEF St!ToldOf
<1>4. CASE part5'[s] = part5[s] /\ (part5[s].closed \/ e = "PROGRESS")
  <2>1. after = items /\ (told # "NOTHING" => part5'[s].closed)
    BY <1>4 DEF St!Terminal
  <2> QED
    BY <1>2, <1>3, <2>1 DEF St!ToldOf, St!TerminalLast, St!StartedFirst
<1>5. ASSUME NEW kept \in Seq(St!Event), after = Append(kept, e),
             items = <<>> => kept = <<>>,
             \A i \in DOMAIN kept : \E j \in DOMAIN items : kept[i] = items[j] /\ (j = 1 => i = 1)
      PROVE  St!ToldOf(s)'
  <2>1. Len(kept) \in Nat /\ DOMAIN kept = 1..Len(kept)
    BY LenProperties
  <2>2. /\ after \in Seq(St!Event) /\ Len(after) = Len(kept) + 1
        /\ \A i \in 1..Len(kept) : after[i] = kept[i]
        /\ after[Len(kept) + 1] = e
    BY <1>5, AppendProperties
  <2>3. DOMAIN after = 1..Len(kept) + 1 /\ after # <<>>
    BY <2>1, <2>2, LenProperties, EmptySeq
  <2> HIDE DEF after
  <2>4. \A i \in DOMAIN after : i # Len(after) => i \in DOMAIN kept /\ after[i] = kept[i]
    BY <2>1, <2>2, <2>3
  <2>5. \A i \in DOMAIN after : after[i] \in St!Terminal => i = Len(after) /\ after[i] = told
    BY <1>2, <1>5, <2>2, <2>4
  <2>6. e = "STARTED" => Len(after) = 1 /\ part7[s] = <<>>
    BY <1>5, <2>2, EmptySeq
  <2>7. \A i \in DOMAIN after : after[i] = "STARTED" => i = 1 /\ part7[s] = <<>>
    <3> SUFFICES ASSUME NEW i \in DOMAIN after, after[i] = "STARTED"
                 PROVE  i = 1 /\ part7[s] = <<>>
      OBVIOUS
    <3>1. CASE i = Len(after)
      BY <2>1, <2>2, <2>6, <3>1
    <3>2. CASE i # Len(after)
      <4>1. i \in DOMAIN kept /\ kept[i] = "STARTED"
        BY <2>4, <3>2
      <4>2. PICK j \in DOMAIN items : items[j] = "STARTED" /\ (j = 1 => i = 1)
        BY <1>5, <4>1
      <4> QED
        BY <1>3, <4>2 DEF St!StartedFirst
    <3> QED
      BY <3>1, <3>2
  <2>8. told # "NOTHING" => after # <<>> /\ after[Len(after)] = told
    BY <2>1, <2>2, <2>3
  <2> QED
    BY <1>2, <1>3, <2>5, <2>7, <2>8 DEF after, St!ToldOf, St!TerminalLast, St!StartedFirst, St!EndsWith
<1>6. CASE part5[s].closed
  BY <1>1, <1>4, <1>6, PutEffect
<1>7. CASE ~part5[s].closed
  <2>1. \/ e = "PROGRESS" /\ part5'[s] = part5[s]
        \/ \E kept \in Seq(St!Event) :
              /\ after = Append(kept, e)
              /\ items = <<>> => kept = <<>>
              /\ \A i \in DOMAIN kept : \E j \in DOMAIN items :
                    kept[i] = items[j] /\ (j = 1 => i = 1)
    <3> DEFINE p == St!Put(part5[s], e)
    <3>1. \/ e = "PROGRESS" /\ p = part5[s]
          \/ \E kept \in Seq(St!Event) :
                /\ p.items = Append(kept, e)
                /\ items = <<>> => kept = <<>>
                /\ \A i \in DOMAIN kept : \E j \in DOMAIN items :
                      kept[i] = items[j] /\ (j = 1 => i = 1)
      BY <1>1, <1>7, PutEffect, Zenon
    <3> HIDE DEF p
    <3>2. p = part5'[s]
      BY DEF p
    <3> QED
      BY <3>1, <3>2, Zenon
  <2> HIDE DEF items, after
  <2> QED
    BY <2>1, <1>4, <1>5
<1> QED
  BY <1>6, <1>7

\* The producer at work puts an event.
LEMMA TellsInv ==
  ASSUME St!StreamInv, NEW s \in Streamed, NEW e \in St!Event, NEW p \in St!Produce,
         part4[s].at \in {"RUNNING", "CLOSING"}, part4[s].told = "NOTHING",
         IF e \in St!Terminal THEN p.told = e /\ p.at \in {"CLOSING", "FINISHING"}
                              ELSE p.told = "NOTHING" /\ p.at = "RUNNING" /\ p.made # 0,
         e = "STARTED" => part4[s].at = "RUNNING" /\ part4[s].made = 0,
         St!Tell(s, e), part4' = [part4 EXCEPT ![s] = p],
         UNCHANGED <<part1, part2, part3, part6, part7>>
  PROVE  St!StreamInv'
<1> DEFINE b == St!Put(part5[s], e)
<1>1. /\ part4[s] \in St!Produce /\ part5[s] \in St!Buffer
      /\ part6[s] \in {"NONE", "READING", "GONE", "ENDED"}
      /\ part7[s] \in Seq(St!Event \ {"PROGRESS"})
      /\ St!InStep(s) /\ s \in part2 /\ part3 # "DRAINED"
  BY StreamTyped DEF St!Active
<1>2. b \in St!Buffer /\ b.finished = part5[s].finished /\ b.closed = part5[s].closed
      /\ (part5[s].closed => b = part5[s])
  BY <1>1, PutEffect
<1>3. part5' = [part5 EXCEPT ![s] = b]
  BY DEF St!Tell
<1>4. /\ part4'[s] = p /\ part5'[s] = b /\ part6'[s] = part6[s] /\ part7'[s] = part7[s]
  BY <1>3 DEF St!StreamInv, St!StreamTypeOK
<1>5. St!ToldOf(s)'
  <2>1. p.told \in {"NOTHING"} \cup St!Terminal
    BY DEF St!Produce
  <2>2. IF e \in St!Terminal THEN p.told = e ELSE p.told = "NOTHING"
    OBVIOUS
  <2>3. e = "STARTED" => part7[s] = <<>> /\ part5[s].items = <<>>
    BY <1>1 DEF St!InStep
  <2> QED
    BY <1>4, <2>1, <2>2, <2>3, PutTold
<1> HIDE DEF b
<1>6. ~part5[s].finished /\ part6[s] \in {"READING", "GONE"}
      /\ (part5[s].closed => part6[s] = "GONE" /\ part5[s].items = <<>>)
  BY <1>1 DEF St!InStep, St!NoProducer
<1>7. p.told # "NOTHING" <=> e \in St!Terminal
  BY DEF St!Terminal
<1>8. St!InStep(s)'
  BY <1>2, <1>4, <1>6, <1>7 DEF St!InStep
<1>9. St!StreamTypeOK' /\ \A u \in Streamed \ {s} : part4'[u] = part4[u] /\ part5'[u] = part5[u]
  BY <1>2, <1>3 DEF St!StreamInv, St!StreamTypeOK
<1> QED
  BY <1>1, <1>5, <1>8, <1>9, OneStreamMoves

\* The producer goes on without one.
LEMMA ProducerInv ==
  ASSUME St!StreamInv, NEW s \in Streamed, NEW p \in St!Produce,
         p.told = part4[s].told, p.made = part4[s].made,
         \/ p.at = "RUNNING" /\ part4[s].at = "QUEUED"
         \/ p.at = "CLOSING" /\ part4[s].at = "RUNNING" /\ part4[s].made # 0
         \/ p.at = "FINISHING" /\ part4[s].at = "CLOSING" /\ part4[s].told # "NOTHING",
         part4' = [part4 EXCEPT ![s] = p],
         UNCHANGED <<part1, part2, part3, part5, part6, part7>>
  PROVE  St!StreamInv'
<1>1. /\ part4[s] \in St!Produce /\ part5[s] \in St!Buffer
      /\ part6[s] \in {"NONE", "READING", "GONE", "ENDED"}
      /\ part7[s] \in Seq(St!Event \ {"PROGRESS"})
      /\ St!InStep(s) /\ St!ToldOf(s)
  BY StreamTyped
<1>2. part4[s].at \in {"QUEUED", "RUNNING", "CLOSING"}
  OBVIOUS
<1>3. s \in part2 /\ part3 # "DRAINED"
  BY <1>2, StreamTyped DEF St!Active
<1>4. part4'[s] = p /\ part5'[s] = part5[s] /\ part6'[s] = part6[s] /\ part7'[s] = part7[s]
  BY DEF St!StreamInv, St!StreamTypeOK
<1>5. St!ToldOf(s)'
  BY <1>1, <1>4 DEF St!ToldOf, St!TerminalLast, St!StartedFirst, St!EndsWith
<1>6. St!InStep(s)'
  <2>1. part6[s] # "NONE" /\ ~part5[s].finished
    BY <1>1, <1>2 DEF St!InStep, St!NoProducer
  <2> QED
    BY <1>1, <1>4, <2>1 DEF St!InStep
<1>7. St!StreamTypeOK' /\ \A u \in Streamed \ {s} : part4'[u] = part4[u]
  BY DEF St!StreamInv, St!StreamTypeOK
<1> QED
  BY <1>3, <1>5, <1>6, <1>7, OneStreamMoves

\* It goes on to the place at.
LEMMA ProducerGoesTo ==
  ASSUME St!StreamInv, NEW s \in Streamed, NEW at \in {"RUNNING", "CLOSING", "FINISHING"},
         part4' = [part4 EXCEPT ![s].at = at]
  PROVE  \E p \in St!Produce :
            /\ part4' = [part4 EXCEPT ![s] = p]
            /\ p.at = at /\ p.told = part4[s].told /\ p.made = part4[s].made
<1> DEFINE p == [part4[s] EXCEPT !.at = at]
<1>1. part4[s] \in St!Produce
  BY StreamTyped
<1>2. p \in St!Produce /\ p.at = at /\ p.told = part4[s].told /\ p.made = part4[s].made
  BY <1>1 DEF St!Produce
<1>3. part4' = [part4 EXCEPT ![s] = p]
  OBVIOUS
<1> HIDE DEF p
<1> QED
  BY <1>2, <1>3

\* The turn and its end.
LEMMA ProduceInv ==
  ASSUME St!StreamInv, NEW s \in Streamed,
         \/ St!Start(s) \/ St!TurnFails(s) \/ St!TurnStops(s) \/ St!CloseTurn(s)
         \/ \E e \in St!Event : St!Yield(s, e)
  PROVE  St!StreamInv'
<1>1. part4[s] \in St!Produce /\ St!InStep(s) /\ part4[s].made \in Nat
  BY StreamTyped DEF St!Produce
<1>2. CASE St!Start(s)
  <2>1. /\ part4[s].at = "QUEUED" /\ part4' = [part4 EXCEPT ![s].at = "RUNNING"]
        /\ UNCHANGED <<part1, part2, part3, part5, part6, part7>>
    BY <1>2 DEF St!Start, St!At
  <2>2. PICK p \in St!Produce : /\ part4' = [part4 EXCEPT ![s] = p] /\ p.at = "RUNNING"
                                /\ p.told = part4[s].told /\ p.made = part4[s].made
    BY <2>1, ProducerGoesTo
  <2> QED
    BY <2>1, <2>2, ProducerInv
<1>3. CASE St!TurnStops(s)
  <2>1. /\ part4[s].at = "RUNNING" /\ part4[s].made # 0 /\ part4' = [part4 EXCEPT ![s].at = "CLOSING"]
        /\ UNCHANGED <<part1, part2, part3, part5, part6, part7>>
    BY <1>1, <1>3 DEF St!TurnStops, St!At
  <2>2. PICK p \in St!Produce : /\ part4' = [part4 EXCEPT ![s] = p] /\ p.at = "CLOSING"
                                /\ p.told = part4[s].told /\ p.made = part4[s].made
    BY <2>1, ProducerGoesTo
  <2> QED
    BY <2>1, <2>2, ProducerInv
<1>4. CASE St!TurnFails(s)
  <2> DEFINE p == [part4[s] EXCEPT !.at = "CLOSING", !.told = "FAILED"]
  <2>1. p \in St!Produce /\ p.told = "FAILED" /\ p.at = "CLOSING"
    BY <1>1 DEF St!Produce, St!Terminal
  <2>2. part4[s].at = "RUNNING" /\ part4[s].told = "NOTHING"
    BY <1>1, <1>4 DEF St!TurnFails, St!At, St!InStep
  <2>3. part4' = [part4 EXCEPT ![s] = p] /\ St!Tell(s, "FAILED")
        /\ UNCHANGED <<part1, part2, part3, part6, part7>>
    BY <1>4 DEF St!TurnFails
  <2> HIDE DEF p
  <2> QED
    BY <2>1, <2>2, <2>3, TellsInv DEF St!Terminal, St!Event
<1>5. CASE St!CloseTurn(s)
  <2>1. part4[s].at = "CLOSING" /\ UNCHANGED <<part1, part2, part3, part6, part7>>
    BY <1>5 DEF St!CloseTurn, St!At
  <2>2. CASE part4[s].told = "NOTHING"
    <3> DEFINE p == [part4[s] EXCEPT !.at = "FINISHING", !.told = "FAILED"]
    <3>1. p \in St!Produce /\ p.told = "FAILED" /\ p.at = "FINISHING"
      BY <1>1 DEF St!Produce, St!Terminal
    <3>2. part4' = [part4 EXCEPT ![s] = p] /\ St!Tell(s, "FAILED")
      BY <1>5, <2>2 DEF St!CloseTurn, St!Untold
    <3> HIDE DEF p
    <3> QED
      BY <2>1, <2>2, <3>1, <3>2, TellsInv DEF St!Terminal, St!Event
  <2>3. CASE part4[s].told # "NOTHING"
    <3>1. part4' = [part4 EXCEPT ![s].at = "FINISHING"] /\ part5' = part5
      BY <1>5, <2>3 DEF St!CloseTurn, St!Untold
    <3>2. PICK p \in St!Produce : /\ part4' = [part4 EXCEPT ![s] = p] /\ p.at = "FINISHING"
                                  /\ p.told = part4[s].told /\ p.made = part4[s].made
      BY <3>1, ProducerGoesTo
    <3> QED
      BY <2>1, <2>3, <3>1, <3>2, ProducerInv
  <2> QED
    BY <2>2, <2>3
<1>6. ASSUME NEW e \in St!Event, St!Yield(s, e) PROVE St!StreamInv'
  <2> DEFINE p == IF e \in St!Terminal THEN [part4[s] EXCEPT !.at = "CLOSING", !.told = e]
                  ELSE [part4[s] EXCEPT !.made = part4[s].made + 1]
  <2>1. /\ part4[s].at = "RUNNING" /\ St!Yields(s, e) /\ St!Tell(s, e)
        /\ part4' = [part4 EXCEPT ![s] = p] /\ UNCHANGED <<part1, part2, part3, part6, part7>>
    <3>1. /\ part4[s].at = "RUNNING" /\ St!Yields(s, e) /\ St!Tell(s, e)
          /\ UNCHANGED <<part1, part2, part3, part6, part7>>
      BY <1>6 DEF St!Yield, St!At
    <3>2. part4' = [part4 EXCEPT ![s] = p]
      <4>1. CASE e \in St!Terminal
        BY <1>6, <4>1 DEF St!Yield
      <4>2. CASE e \notin St!Terminal
        BY <1>6, <4>2 DEF St!Yield
      <4> QED
        BY <4>1, <4>2
    <3> QED
      BY <3>1, <3>2
  <2>2. part4[s].told = "NOTHING"
    BY <1>1, <2>1 DEF St!InStep
  <2>3. e = "STARTED" => part4[s].made = 0
    BY <2>1 DEF St!Yields
  <2>4. CASE e \in St!Terminal
    <3>1. p \in St!Produce /\ p.told = e /\ p.at = "CLOSING"
      BY <1>1, <2>4 DEF St!Produce
    <3> HIDE DEF p
    <3> QED
      BY <2>1, <2>2, <2>3, <2>4, <3>1, TellsInv
  <2>5. CASE e \notin St!Terminal
    <3>1. MaxProgress \in Nat
      BY ServicesAssumption DEF St!StreamAssumption
    <3>2. part4[s].made + 1 \in 0..MaxProgress + 2 /\ part4[s].made + 1 # 0
      BY <1>1, <2>1, <2>5, <3>1 DEF St!Yields, St!Terminal
    <3>3. p \in St!Produce /\ p.told = "NOTHING" /\ p.at = "RUNNING" /\ p.made # 0
      BY <1>1, <2>1, <2>2, <2>5, <3>2 DEF St!Produce
    <3> HIDE DEF p
    <3> QED
      BY <2>1, <2>2, <2>3, <2>5, <3>3, TellsInv
  <2> QED
    BY <2>4, <2>5
<1> QED
  BY <1>2, <1>3, <1>4, <1>5, <1>6

\* A response begins: its request is admitted, or told that there is no room.
LEMMA OpenInv ==
  ASSUME St!StreamInv, NEW s \in Streamed, St!Open(s) PROVE St!StreamInv'
<1>1. /\ part6[s] = "NONE" /\ part6' = [part6 EXCEPT ![s] = "READING"]
      /\ UNCHANGED <<part1, part3, part7>>
  BY DEF St!Open
<1>2. part4[s] = St!NoProducer /\ part5[s] = St!NoBuffer /\ part7[s] = <<>>
  BY <1>1, StreamTyped DEF St!InStep
<1>3. MaxProgress \in Nat /\ 0 \in 0..MaxProgress + 2
  BY ServicesAssumption DEF St!StreamAssumption
<1>4. CASE St!Admits
  <2> DEFINE p == [part4[s] EXCEPT !.at = "QUEUED"]
  <2>1. part2' = part2 \cup {s} /\ part4' = [part4 EXCEPT ![s] = p] /\ part5' = part5
    BY <1>4 DEF St!Open
  <2>2. p \in St!Produce /\ p.at = "QUEUED" /\ p.told = "NOTHING" /\ p.made = 0
    BY <1>2, <1>3 DEF St!NoProducer, St!Produce
  <2> HIDE DEF p
  <2>3. /\ St!StreamTypeOK'
        /\ \A u \in Streamed \ {s} : part4'[u] = part4[u] /\ part6'[u] = part6[u]
    BY <1>1, <2>1, <2>2 DEF St!StreamInv, St!StreamTypeOK
  <2>4. part4'[s] = p /\ part5'[s] = part5[s] /\ part6'[s] = "READING" /\ part7'[s] = <<>>
    BY <1>1, <1>2, <2>1 DEF St!StreamInv, St!StreamTypeOK
  <2>5. part5[s].items = <<>> /\ ~part5[s].finished /\ ~part5[s].closed
    BY <1>2 DEF St!NoBuffer
  <2>6. St!ToldOf(s)'
    BY <2>2, <2>4, <2>5, EmptySeq DEF St!ToldOf, St!TerminalLast, St!StartedFirst
  <2>7. St!InStep(s)'
    BY <2>2, <2>4, <2>5 DEF St!InStep
  <2>8. part3 # "DRAINED"
    BY <1>4 DEF St!Admits, St!StreamInv
  <2> QED
    BY <1>1, <2>1, <2>3, <2>6, <2>7, <2>8, OneStreamMoves
<1>5. CASE ~St!Admits
  <2> DEFINE q == St!Put(St!NoBuffer, "FAILED")
             b == St!Finished(q)
             p == [part4[s] EXCEPT !.told = "FAILED"]
  <2>1. part2' = part2 /\ part4' = [part4 EXCEPT ![s] = p] /\ part5' = [part5 EXCEPT ![s] = b]
    BY <1>5 DEF St!Open, St!Rejected
  <2>2. p \in St!Produce /\ p.at = "NONE" /\ p.told = "FAILED"
    BY <1>2, <1>3 DEF St!NoProducer, St!Produce, St!Terminal
  <2>3. St!NoBuffer \in St!Buffer /\ ~St!NoBuffer.closed /\ St!NoBuffer.items = <<>>
    BY EmptySeq DEF St!NoBuffer, St!Buffer
  <2>4. q \in St!Buffer /\ ~q.closed /\ \E kept \in Seq(St!Event) : q.items = Append(kept, "FAILED") /\ kept = <<>>
    BY <2>3, PutEffect DEF St!Event
  <2>5. /\ q.items \in Seq(St!Event) /\ Len(q.items) = 1 /\ q.items[1] = "FAILED"
    <3>1. q.items = Append(<<>>, "FAILED") /\ "FAILED" \in St!Event
      BY <2>4 DEF St!Event
    <3> HIDE DEF q
    <3> QED
      BY <3>1
  <2> HIDE DEF q
  <2>6. b \in St!Buffer /\ ~b.closed /\ b.finished /\ b.items = q.items
    BY <2>4 DEF St!Finished, St!Buffer
  <2>7. DOMAIN q.items = {1} /\ q.items # <<>>
    BY <2>5, LenProperties, EmptySeq
  <2> HIDE DEF p, b
  <2>8. /\ St!StreamTypeOK'
        /\ \A u \in Streamed \ {s} :
              part4'[u] = part4[u] /\ part5'[u] = part5[u] /\ part6'[u] = part6[u]
    BY <1>1, <2>1, <2>2, <2>6 DEF St!StreamInv, St!StreamTypeOK
  <2>9. part4'[s] = p /\ part5'[s] = b /\ part6'[s] = "READING" /\ part7'[s] = <<>>
    BY <1>1, <1>2, <2>1 DEF St!StreamInv, St!StreamTypeOK
  <2>10. St!ToldOf(s)'
    <3>1. /\ DOMAIN part5'[s].items = {1} /\ Len(part5'[s].items) = 1
          /\ part5'[s].items[1] = "FAILED" /\ part5'[s].items # <<>>
          /\ part4'[s].told = "FAILED" /\ DOMAIN part7'[s] = {} /\ part7'[s] = <<>>
      BY <2>2, <2>5, <2>6, <2>7, <2>9, EmptySeq
    <3> QED
      BY <3>1 DEF St!ToldOf, St!TerminalLast, St!StartedFirst, St!EndsWith
  <2>11. St!InStep(s)'
    BY <2>2, <2>6, <2>9 DEF St!InStep
  <2>12. ~St!Active(s)'
    BY <2>2, <2>9 DEF St!Active
  <2> QED
    BY <1>1, <2>1, <2>8, <2>10, <2>11, <2>12, OneStreamMoves
<1> QED
  BY <1>4, <1>5

\* The producer is done and gives its slot back.
LEMMA DoneInv ==
  ASSUME St!StreamInv, NEW s \in Streamed, St!Finish(s) \/ St!Completed(s)
  PROVE  St!StreamInv'
<1>0. part4[s] \in St!Produce /\ part5[s] \in St!Buffer /\ St!ToldOf(s) /\ St!InStep(s)
  BY StreamTyped
<1>1. CASE St!Finish(s)
  <2> DEFINE b == St!Finished(part5[s])
             p == [part4[s] EXCEPT !.at = "DONE"]
  <2>1. /\ part4[s].at = "FINISHING" /\ part4' = [part4 EXCEPT ![s] = p]
        /\ part5' = [part5 EXCEPT ![s] = b] /\ UNCHANGED <<part1, part2, part3, part6, part7>>
    BY <1>1 DEF St!Finish, St!At
  <2>2. p \in St!Produce /\ p.at = "DONE" /\ p.told = part4[s].told
    BY <1>0 DEF St!Produce
  <2>3. b \in St!Buffer /\ b.closed = part5[s].closed /\ b.finished /\ b.items = part5[s].items
    BY <1>0 DEF St!Finished, St!Buffer
  <2> HIDE DEF p, b
  <2>4. /\ St!StreamTypeOK'
        /\ \A u \in Streamed \ {s} : part4'[u] = part4[u] /\ part5'[u] = part5[u]
    BY <2>1, <2>2, <2>3 DEF St!StreamInv, St!StreamTypeOK
  <2>5. part4'[s] = p /\ part5'[s] = b /\ part6'[s] = part6[s] /\ part7'[s] = part7[s]
    BY <2>1 DEF St!StreamInv, St!StreamTypeOK
  <2>6. St!ToldOf(s)'
    BY <1>0, <2>2, <2>3, <2>5 DEF St!ToldOf, St!TerminalLast, St!StartedFirst, St!EndsWith
  <2>7. St!InStep(s)'
    BY <1>0, <2>1, <2>2, <2>3, <2>5 DEF St!InStep, St!NoProducer
  <2>8. ~St!Active(s)'
    BY <2>2, <2>5 DEF St!Active
  <2> QED
    BY <2>1, <2>4, <2>6, <2>7, <2>8, OneStreamMoves
<1>2. CASE St!Completed(s)
  <2>1. part4[s].at = "DONE" /\ part2' = part2 \ {s} /\ UNCHANGED <<part1, part3, part4, part5, part6, part7>>
    BY <1>2 DEF St!Completed, St!Discard
  <2>2. St!StreamTypeOK'
    BY <2>1 DEF St!StreamInv, St!StreamTypeOK
  <2>3. St!ToldOf(s)' /\ St!InStep(s)' /\ ~St!Active(s)'
    BY <1>0, <2>1 DEF St!ToldOf, St!TerminalLast, St!StartedFirst, St!EndsWith, St!InStep, St!Active
  <2> QED
    BY <2>1, <2>2, <2>3, OneStreamMoves
<1> QED
  BY <1>1, <1>2

\* The registry is drained.
LEMMA DrainInv ==
  ASSUME St!StreamInv, St!Shutdown \/ St!ShutdownEnds PROVE St!StreamInv'
<1>1. UNCHANGED <<part2, part4, part5, part6, part7>>
  BY DEF St!Shutdown, St!ShutdownEnds
<1>2. St!StreamTypeOK' /\ (part3' # "NO" => ~part1')
  <2>1. /\ part1' = part1 \/ part1' = FALSE
        /\ part1 = FALSE \/ part1' = FALSE
    BY DEF St!Shutdown, St!ShutdownEnds, St!StreamInv, St!StreamTypeOK
  <2>2. part3' \in {"WAITING", "DRAINED", "TIMED_OUT"}
    BY DEF St!Shutdown, St!ShutdownEnds
  <2>3. part1' \in BOOLEAN
    BY <2>1 DEF St!StreamInv, St!StreamTypeOK
  <2> QED
    BY <1>1, <2>1, <2>2, <2>3 DEF St!StreamInv, St!StreamTypeOK
<1>3. part3' = "DRAINED" => \A s \in part2 : ~St!Active(s)
  BY DEF St!Shutdown, St!ShutdownEnds
<1>4. \A s \in Streamed : St!ToldOf(s)' /\ St!InStep(s)' /\ (St!Active(s)' <=> St!Active(s))
  BY <1>1 DEF St!StreamInv, St!ToldOf, St!TerminalLast, St!StartedFirst, St!EndsWith, St!InStep,
              St!Active
<1> QED
  BY <1>1, <1>2, <1>3, <1>4 DEF St!StreamInv, St!DrainMeansIdle

\* The response takes the next event.
LEMMA TakeInv ==
  ASSUME St!StreamInv, NEW s \in Streamed, St!Take(s) PROVE St!StreamInv'
<1> DEFINE items == part5[s].items
           h == Head(items)
           rest == Tail(items)
           b == [part5[s] EXCEPT !.items = rest]
           g == IF St!IsProgress(h) THEN part7[s] ELSE Append(part7[s], h)
<1>1. /\ part4[s] \in St!Produce /\ part5[s] \in St!Buffer /\ items \in Seq(St!Event)
      /\ part7[s] \in Seq(St!Event \ {"PROGRESS"}) /\ St!ToldOf(s) /\ St!InStep(s)
  BY StreamTyped
<1>2. /\ part6[s] = "READING" /\ items # <<>>
      /\ part7' = [part7 EXCEPT ![s] = g] /\ part5' = [part5 EXCEPT ![s] = b]
      /\ UNCHANGED <<part1, part2, part3, part4, part6>>
  BY DEF St!Take
<1>3. /\ Len(items) \in Nat \ {0} /\ DOMAIN items = 1..Len(items)
      /\ h = items[1] /\ h \in St!Event /\ rest \in Seq(St!Event) /\ Len(rest) = Len(items) - 1
      /\ DOMAIN rest = 1..Len(items) - 1
      /\ \A i \in 1..Len(items) - 1 : rest[i] = items[i + 1]
  BY <1>1, <1>2, EmptySeq, LenProperties, HeadTailProperties
<1>4. b \in St!Buffer /\ b.items = rest /\ b.finished = part5[s].finished /\ b.closed = part5[s].closed
  BY <1>1, <1>3 DEF St!Buffer
<1>5. DOMAIN part7[s] = 1..Len(part7[s]) /\ Len(part7[s]) \in Nat
  BY <1>1, LenProperties
<1>6. \A i \in DOMAIN part7[s] : part7[s][i] \notin St!Terminal
  BY <1>1, <1>2 DEF St!ToldOf
<1>7. \A i \in DOMAIN rest : rest[i] # "STARTED"
  <2>1. \A i \in DOMAIN items : items[i] = "STARTED" => i = 1
    BY <1>1 DEF St!ToldOf, St!StartedFirst
  <2> QED
    BY <1>3, <2>1
<1>8. h = "STARTED" => part7[s] = <<>>
  BY <1>1, <1>3 DEF St!ToldOf
<1>9. h \in St!Terminal => Len(items) = 1 /\ h = part4[s].told
  <2>1. \A i \in DOMAIN items : items[i] \in St!Terminal => i = Len(items) /\ items[i] = part4[s].told
    BY <1>1 DEF St!ToldOf, St!TerminalLast
  <2>2. 1 \in DOMAIN items /\ items[1] = h
    BY <1>3
  <2> QED
    BY <2>1, <2>2
<1>10. \A i \in DOMAIN rest : rest[i] \in St!Terminal => i = Len(rest) /\ rest[i] = part4[s].told
  <2>1. \A i \in DOMAIN items : items[i] \in St!Terminal => i = Len(items) /\ items[i] = part4[s].told
    BY <1>1 DEF St!ToldOf, St!TerminalLast
  <2> QED
    BY <1>3, <2>1
<1>11. part4[s].told # "NOTHING" /\ ~part5[s].closed => items[Len(items)] = part4[s].told
  BY <1>1, <1>2 DEF St!ToldOf, St!EndsWith
<1>12. h = "PROGRESS" => g = part7[s]
  BY DEF St!IsProgress
<1>13. h # "PROGRESS" =>
          /\ g \in Seq(St!Event \ {"PROGRESS"}) /\ Len(g) = Len(part7[s]) + 1 /\ g # <<>>
          /\ DOMAIN g = 1..Len(part7[s]) + 1 /\ g[Len(part7[s]) + 1] = h
          /\ \A i \in 1..Len(part7[s]) : g[i] = part7[s][i]
  <2> SUFFICES ASSUME h # "PROGRESS"
               PROVE  /\ g \in Seq(St!Event \ {"PROGRESS"}) /\ Len(g) = Len(part7[s]) + 1 /\ g # <<>>
                      /\ DOMAIN g = 1..Len(part7[s]) + 1 /\ g[Len(part7[s]) + 1] = h
                      /\ \A i \in 1..Len(part7[s]) : g[i] = part7[s][i]
    OBVIOUS
  <2>1. g = Append(part7[s], h) /\ h \in St!Event \ {"PROGRESS"}
    BY <1>3 DEF St!IsProgress
  <2> HIDE DEF h, g
  <2>2. /\ g \in Seq(St!Event \ {"PROGRESS"}) /\ Len(g) = Len(part7[s]) + 1
        /\ g[Len(part7[s]) + 1] = h /\ \A i \in 1..Len(part7[s]) : g[i] = part7[s][i]
    BY <1>1, <2>1, AppendProperties
  <2> QED
    BY <1>5, <2>2, LenProperties, EmptySeq
<1> HIDE DEF items, h, rest, b, g
<1>14. g \in Seq(St!Event \ {"PROGRESS"})
  BY <1>1, <1>12, <1>13
<1>15. /\ St!StreamTypeOK'
       /\ \A u \in Streamed \ {s} : part5'[u] = part5[u] /\ part7'[u] = part7[u]
  BY <1>2, <1>4, <1>14 DEF St!StreamInv, St!StreamTypeOK
<1>16. part4'[s] = part4[s] /\ part5'[s] = b /\ part6'[s] = part6[s] /\ part7'[s] = g
  BY <1>2 DEF St!StreamInv, St!StreamTypeOK
<1>17. \A i \in DOMAIN g : /\ g[i] \in St!Terminal => i = Len(g) /\ g[i] = part4[s].told /\ rest = <<>>
                           /\ g[i] = "STARTED" => i = 1
  <2>1. CASE h = "PROGRESS"
    BY <1>1, <1>6, <1>12, <2>1 DEF St!ToldOf, St!StartedFirst
  <2>2. CASE h # "PROGRESS"
    <3> SUFFICES ASSUME NEW i \in DOMAIN g
                 PROVE  /\ g[i] \in St!Terminal => i = Len(g) /\ g[i] = part4[s].told /\ rest = <<>>
                        /\ g[i] = "STARTED" => i = 1
      OBVIOUS
    <3>1. CASE i = Len(part7[s]) + 1
      <4>1. g[i] = h /\ i = Len(g)
        BY <1>13, <2>2, <3>1
      <4>2. h \in St!Terminal => rest = <<>>
        BY <1>3, <1>9, EmptySeq
      <4>3. h = "STARTED" => i = 1
        BY <1>8, <3>1, EmptySeq
      <4> QED
        BY <1>9, <4>1, <4>2, <4>3
    <3>2. CASE i # Len(part7[s]) + 1
      <4>1. i \in DOMAIN part7[s] /\ g[i] = part7[s][i]
        BY <1>5, <1>13, <2>2, <3>2
      <4> QED
        BY <1>1, <1>6, <4>1 DEF St!ToldOf, St!StartedFirst
    <3> QED
      BY <3>1, <3>2
  <2> QED
    BY <2>1, <2>2
<1>18. part4[s].told # "NOTHING" /\ ~part5[s].closed =>
          (rest # <<>> /\ rest[Len(rest)] = part4[s].told)
             \/ (rest = <<>> /\ g # <<>> /\ g[Len(g)] = part4[s].told)
  <2> SUFFICES ASSUME part4[s].told # "NOTHING", ~part5[s].closed
               PROVE  (rest # <<>> /\ rest[Len(rest)] = part4[s].told)
                         \/ (rest = <<>> /\ g # <<>> /\ g[Len(g)] = part4[s].told)
    OBVIOUS
  <2>1. CASE Len(items) = 1
    <3>1. h = part4[s].told /\ rest = <<>>
      BY <1>3, <1>11, <2>1, EmptySeq
    <3>2. h # "PROGRESS"
      BY <1>1, <3>1 DEF St!Produce, St!Terminal
    <3> QED
      BY <1>13, <3>1, <3>2
  <2>2. CASE Len(items) # 1
    <3>1. Len(rest) \in 1..Len(items) - 1 /\ Len(rest) + 1 = Len(items)
      BY <1>3, <2>2
    <3>2. rest[Len(rest)] = part4[s].told
      BY <1>3, <1>11, <3>1
    <3> QED
      BY <3>1, <3>2, EmptySeq
  <2> QED
    BY <2>1, <2>2
<1>19. St!ToldOf(s)'
  BY <1>4, <1>7, <1>10, <1>16, <1>17, <1>18
     DEF St!ToldOf, St!TerminalLast, St!StartedFirst, St!EndsWith
<1>20. St!InStep(s)'
  BY <1>1, <1>2, <1>4, <1>16 DEF St!InStep, items
<1>21. St!Active(s)' => s \in part2' /\ part3 # "DRAINED"
  BY <1>2, StreamTyped DEF St!Active
<1> QED
  BY <1>2, <1>15, <1>19, <1>20, <1>21, OneStreamMoves

\* The response ends, or its client leaves.
LEMMA RespondEndsInv ==
  ASSUME St!StreamInv, NEW s \in Streamed, St!EndOfStream(s) \/ St!Leave(s)
  PROVE  St!StreamInv'
<1>1. /\ part4[s] \in St!Produce /\ part5[s] \in St!Buffer /\ part5[s].items \in Seq(St!Event)
      /\ St!ToldOf(s) /\ St!InStep(s)
  BY StreamTyped
<1>2. part6[s] = "READING" /\ UNCHANGED <<part1, part2, part3, part4, part7>>
  BY DEF St!EndOfStream, St!Leave
<1>3. St!Active(s)' => s \in part2' /\ part3 # "DRAINED"
  BY <1>2, StreamTyped DEF St!Active
<1>4. CASE St!EndOfStream(s)
  <2>1. /\ part5[s].items = <<>> /\ part5[s].finished /\ part5' = part5
        /\ part6' = [part6 EXCEPT ![s] = "ENDED"]
    BY <1>4 DEF St!EndOfStream
  <2>2. /\ St!StreamTypeOK' /\ part6'[s] = "ENDED"
        /\ \A u \in Streamed \ {s} : part6'[u] = part6[u]
    BY <1>2, <2>1 DEF St!StreamInv, St!StreamTypeOK
  <2>3. St!ToldOf(s)'
    BY <1>1, <1>2, <2>1 DEF St!ToldOf, St!TerminalLast, St!StartedFirst, St!EndsWith
  <2>4. St!InStep(s)'
    BY <1>1, <1>2, <2>1, <2>2 DEF St!InStep
  <2> QED
    BY <1>2, <1>3, <2>1, <2>2, <2>3, <2>4, OneStreamMoves
<1>5. CASE St!Leave(s)
  <2> DEFINE shut == [part5[s] EXCEPT !.closed = TRUE, !.items = <<>>]
             b == IF St!Last(part7[s]) \in St!Terminal THEN part5[s] ELSE shut
  <2>1. part7[s] # <<>> /\ part5' = [part5 EXCEPT ![s] = b] /\ part6' = [part6 EXCEPT ![s] = "GONE"]
    BY <1>5 DEF St!Leave
  <2>2. shut \in St!Buffer /\ shut.closed /\ shut.items = <<>> /\ shut.finished = part5[s].finished
    BY <1>1, EmptySeq DEF St!Buffer
  <2> HIDE DEF shut
  <2>3. b \in St!Buffer /\ (b = part5[s] \/ b = shut)
    BY <1>1, <2>2
  <2> HIDE DEF b
  <2>4. /\ St!StreamTypeOK'
        /\ \A u \in Streamed \ {s} : part5'[u] = part5[u] /\ part6'[u] = part6[u]
    BY <1>2, <2>1, <2>3 DEF St!StreamInv, St!StreamTypeOK
  <2>5. part4'[s] = part4[s] /\ part5'[s] = b /\ part6'[s] = "GONE" /\ part7'[s] = part7[s]
    BY <1>2, <2>1 DEF St!StreamInv, St!StreamTypeOK
  <2>6. St!ToldOf(s)'
    BY <1>1, <2>2, <2>3, <2>5, EmptySeq DEF St!ToldOf, St!TerminalLast, St!StartedFirst, St!EndsWith
  <2>7. St!InStep(s)'
    BY <1>1, <1>2, <2>2, <2>3, <2>5 DEF St!InStep
  <2> QED
    BY <1>2, <1>3, <2>1, <2>4, <2>6, <2>7, OneStreamMoves
<1> QED
  BY <1>4, <1>5

\* No step and no other scene disturbs it.
LEMMA StreamStep ==
  ASSUME scene = "stream" => St!StreamInv, [ServicesNext]_servicesVars
  PROVE  (scene = "stream" => St!StreamInv)'
<1>1. CASE UNCHANGED servicesVars
  BY <1>1 DEF servicesVars, St!StreamInv, St!StreamTypeOK, St!ToldOf, St!TerminalLast,
              St!StartedFirst, St!EndsWith, St!InStep, St!Active, St!DrainMeansIdle
<1>2. CASE ServicesNext
  <2> SUFFICES ASSUME scene' = "stream" PROVE St!StreamInv'
    OBVIOUS
  <2>1. scene = "stream"
    BY <1>2 DEF ServicesNext
  <2>2. St!StreamNext
    BY <1>2, <2>1 DEF ServicesNext, InParts
  <2> QED
    BY <2>1, <2>2, ProduceInv, OpenInv, DoneInv, DrainInv, TakeInv, RespondEndsInv
       DEF St!StreamNext, St!Work, St!Respond
<1> QED
  BY <1>1, <1>2

\* A response is told of the end of its turn once, last and as it was, and a
\* drain that reports success leaves no turn at work, for any number of streams,
\* slots and events and any limit of the buffer (BoundedEventBuffer.put,
\* BoundedStreamExecutionRegistry.shutdown).
THEOREM StreamsTellTheEnd == ServicesSpec => []StreamsAreToldAndDrained
<1>1. ServicesInit => (scene = "stream" => St!StreamInv)
  <2> SUFFICES ASSUME St!StreamInit PROVE St!StreamInv
    BY DEF ServicesInit
  <2>1. MaxProgress \in Nat /\ 0 \in 0..MaxProgress + 2
    BY ServicesAssumption DEF St!StreamAssumption
  <2>2. St!NoProducer \in St!Produce /\ St!NoBuffer \in St!Buffer
    BY <2>1, EmptySeq DEF St!NoProducer, St!Produce, St!NoBuffer, St!Buffer
  <2>3. St!StreamTypeOK
    BY <2>2, EmptySeq DEF St!StreamInit, St!StreamTypeOK
  <2>4. \A s \in Streamed : /\ part4[s].at = "NONE" /\ part4[s].told = "NOTHING"
                            /\ part4[s] = St!NoProducer /\ part5[s] = St!NoBuffer
                            /\ part5[s].items = <<>> /\ ~part5[s].finished /\ ~part5[s].closed
                            /\ part6[s] = "NONE" /\ part7[s] = <<>>
    BY DEF St!StreamInit, St!NoProducer, St!NoBuffer
  <2>5. \A s \in Streamed : St!ToldOf(s) /\ St!InStep(s) /\ ~St!Active(s)
    BY <2>4, EmptySeq
       DEF St!ToldOf, St!TerminalLast, St!StartedFirst, St!InStep, St!Active
  <2> QED
    BY <2>3, <2>5 DEF St!StreamInit, St!StreamInv, St!DrainMeansIdle
<1>2. (scene = "stream" => St!StreamInv) => StreamsAreToldAndDrained
  <2> SUFFICES ASSUME St!StreamInv PROVE St!ToldAsItEnded /\ St!DrainMeansIdle
    BY DEF StreamsAreToldAndDrained
  <2> SUFFICES ASSUME NEW s \in Streamed
               PROVE  LET all == part7[s] \o part5[s].items IN
                      /\ \A i \in DOMAIN all :
                            all[i] \in St!Terminal => i = Len(all) /\ all[i] = part4[s].told
                      /\ \A i \in DOMAIN all : all[i] = "STARTED" => i = 1
                      /\ part6[s] = "ENDED" => all # <<>> /\ St!Last(all) \in St!Terminal
    BY DEF St!StreamInv, St!ToldAsItEnded
  <2> DEFINE items == part5[s].items
             all == part7[s] \o items
  <2>1. /\ part4[s] \in St!Produce /\ items \in Seq(St!Event) /\ part7[s] \in Seq(St!Event)
        /\ St!ToldOf(s) /\ St!InStep(s)
    <3>1. part7[s] \in Seq(St!Event \ {"PROGRESS"})
      BY StreamTyped
    <3>2. part7[s] \in Seq(St!Event)
      BY <3>1, SeqDef
    <3> QED
      BY <3>2, StreamTyped
  <2>2. CASE items = <<>>
    <3>1. all = part7[s]
      BY <2>1, <2>2, ConcatEmptySeq
    <3>2. /\ \A i \in DOMAIN part7[s] :
                part7[s][i] \in St!Terminal => i = Len(part7[s]) /\ part7[s][i] = part4[s].told
          /\ \A i \in DOMAIN part7[s] : part7[s][i] = "STARTED" => i = 1
      BY <2>1 DEF St!ToldOf, St!TerminalLast, St!StartedFirst
    <3>3. part6[s] = "ENDED" => /\ part7[s] # <<>> /\ part7[s][Len(part7[s])] = part4[s].told
                                /\ part4[s].told \in St!Terminal
      BY <2>1, <2>2 DEF St!ToldOf, St!EndsWith, St!InStep, St!Produce
    <3> HIDE DEF all, items
    <3> QED
      BY <3>1, <3>2, <3>3 DEF St!Last, all, items
  <2>3. CASE items # <<>>
    <3>1. /\ \A i \in DOMAIN part7[s] : part7[s][i] \notin St!Terminal
          /\ \A i \in DOMAIN part7[s] : part7[s][i] = "STARTED" => i = 1
          /\ \A i \in DOMAIN items :
                items[i] \in St!Terminal => i = Len(items) /\ items[i] = part4[s].told
          /\ \A i \in DOMAIN items : items[i] = "STARTED" => i = 1 /\ part7[s] = <<>>
          /\ part6[s] # "ENDED"
      BY <2>1, <2>3 DEF St!ToldOf, St!TerminalLast, St!StartedFirst, St!InStep
    <3>2. /\ Len(all) = Len(part7[s]) + Len(items) /\ DOMAIN all = 1..Len(all)
          /\ Len(part7[s]) \in Nat /\ Len(items) \in Nat
          /\ DOMAIN part7[s] = 1..Len(part7[s]) /\ DOMAIN items = 1..Len(items)
          /\ \A i \in 1..Len(part7[s]) + Len(items) :
                all[i] = IF i <= Len(part7[s]) THEN part7[s][i] ELSE items[i - Len(part7[s])]
      BY <2>1, ConcatProperties, LenProperties
    <3> HIDE DEF all, items
    <3>3. ASSUME NEW i \in DOMAIN all
          PROVE  /\ all[i] \in St!Terminal => i = Len(all) /\ all[i] = part4[s].told
                 /\ all[i] = "STARTED" => i = 1
      <4>1. CASE i <= Len(part7[s])
        <5>1. i \in DOMAIN part7[s] /\ all[i] = part7[s][i]
          BY <3>2, <3>3, <4>1
        <5> QED
          BY <3>1, <5>1
      <4>2. CASE ~(i <= Len(part7[s]))
        <5>1. i - Len(part7[s]) \in DOMAIN items /\ all[i] = items[i - Len(part7[s])]
          BY <3>2, <3>3, <4>2
        <5>2. all[i] \in St!Terminal => i - Len(part7[s]) = Len(items) /\ all[i] = part4[s].told
          BY <3>1, <5>1
        <5>3. all[i] = "STARTED" => i - Len(part7[s]) = 1 /\ Len(part7[s]) = 0
          BY <3>1, <5>1, EmptySeq
        <5> QED
          BY <3>2, <3>3, <5>2, <5>3
      <4> QED
        BY <4>1, <4>2
    <3> QED
      BY <3>1, <3>3 DEF all, items
  <2> QED
    BY <2>2, <2>3
<1> QED
  BY <1>1, <1>2, StreamStep, PTL DEF ServicesSpec

-----------------------------------------------------------------------------
(* Consultations: ticket, record, spent, audit and request are the parts   *)
(* 1 to 5.                                                                 *)

\* A draft, or a transition, under way.
LEMMA ConsultTyped ==
  ASSUME Cs!ConsultationInv
  PROVE  /\ part1 \in Seq(Cs!Ticket) /\ part4 \in Seq(Seq({"CREATE"} \cup Cs!Status))
         /\ DOMAIN part1 = 1..Len(part1) /\ DOMAIN part4 = 1..Len(part1) /\ Len(part1) \in Nat
         /\ Len(part4) = Len(part1)
         /\ \A i \in DOMAIN part1 : /\ part1[i] \in Cs!Ticket
                                    /\ part4[i] \in Seq({"CREATE"} \cup Cs!Status)
         /\ \A t \in Thread : /\ part5[t].step \in {"LOOKED_UP", "CONSUMED"} => part5[t] \in Cs!Draft
                              /\ part5[t].step = "LOADED" => part5[t] \in Cs!Move
                              /\ part5[t].step \in {"NONE", "LOOKED_UP", "CONSUMED", "LOADED"}
<1>1. part1 \in Seq(Cs!Ticket) /\ part4 \in Seq(Seq({"CREATE"} \cup Cs!Status)) /\ Len(part4) = Len(part1)
  BY DEF Cs!ConsultationInv, Cs!TypeOK
<1>2. DOMAIN part1 = 1..Len(part1) /\ DOMAIN part4 = 1..Len(part1) /\ Len(part1) \in Nat
  BY <1>1, LenProperties
<1>3. \A i \in DOMAIN part1 : /\ part1[i] \in Cs!Ticket
                              /\ part4[i] \in Seq({"CREATE"} \cup Cs!Status)
  BY <1>1, <1>2, ElementOfSeq
<1>4. \A t \in Thread : part5[t] \in {Cs!NoRequest} \cup Cs!Draft \cup Cs!Move
  BY DEF Cs!ConsultationInv, Cs!TypeOK
<1>5. \A t \in Thread : /\ part5[t].step \in {"LOOKED_UP", "CONSUMED"} => part5[t] \in Cs!Draft
                        /\ part5[t].step = "LOADED" => part5[t] \in Cs!Move
                        /\ part5[t].step \in {"NONE", "LOOKED_UP", "CONSUMED", "LOADED"}
  BY <1>4 DEF Cs!NoRequest, Cs!Draft, Cs!Move
<1> QED
  BY <1>1, <1>2, <1>3, <1>5

\* A token is not an approval.
LEMMA TokensApart ==
  ASSUME NEW d, d.token \in Token, d.approval \in Approval \cup {NoApproval}
  PROVE  /\ d.token \in Cs!Spend(d)
         /\ \A x \in Token : x \in Cs!Spend(d) => x = d.token
         /\ \A x \in Approval : x \in Cs!Spend(d) <=> x = d.approval
         /\ Cs!Spend(d) \subseteq Token \cup Approval
BY ServicesAssumption DEF Cs!ConsultationAssumption, Cs!Spend

\* A request goes elsewhere, and writes nothing.
LEMMA ConsultMoves ==
  ASSUME Cs!ConsultationInv, NEW t \in Thread,
         NEW r \in {Cs!NoRequest} \cup Cs!Draft \cup Cs!Move,
         part5' = [part5 EXCEPT ![t] = r], UNCHANGED <<part1, part2, part3, part4>>,
         r.step = "CONSUMED" =>
            /\ r.token \notin part3
            /\ \A u \in Thread \ {t} : part5[u].step = "CONSUMED" => part5[u].token # r.token,
         r.step = "LOADED" =>
            /\ r.ticket \in DOMAIN part1 /\ r.copy = part1[r.ticket]
            /\ Cs!TransitionTo(r.copy.status, r.target)
  PROVE  Cs!ConsultationInv'
<1>1. Cs!TypeOK' /\ part5'[t] = r /\ \A u \in Thread \ {t} : part5'[u] = part5[u]
  BY DEF Cs!ConsultationInv, Cs!TypeOK
<1>2. ASSUME NEW u \in Thread, part5'[u].step = "CONSUMED"
      PROVE  /\ part5'[u].token \notin part3'
             /\ \A v \in Thread \ {u} :
                   part5'[v].step = "CONSUMED" => part5'[v].token # part5'[u].token
  <2>1. CASE u = t
    BY <1>1, <1>2, <2>1
  <2>2. CASE u # t
    BY <1>1, <1>2, <2>2 DEF Cs!ConsultationInv
  <2> QED
    BY <2>1, <2>2
<1>3. ASSUME NEW u \in Thread, part5'[u].step = "LOADED"
      PROVE  /\ part5'[u].ticket \in DOMAIN part1'
             /\ part5'[u].copy.version <= part1'[part5'[u].ticket].version
             /\ Cs!Update(part5[u])' => part5'[u].copy = part1'[part5'[u].ticket]
             /\ Cs!TransitionTo(part5[u].copy.status, part5[u].target)'
  <2>1. CASE u = t
    <3>1. /\ r.ticket \in DOMAIN part1 /\ r.copy = part1[r.ticket]
          /\ Cs!TransitionTo(r.copy.status, r.target)
      BY <1>1, <1>3, <2>1
    <3>2. part1[r.ticket].version \in Nat
      BY <3>1, ConsultTyped DEF Cs!Ticket
    <3> QED
      BY <1>1, <2>1, <3>1, <3>2 DEF Cs!TransitionTo
  <2>2. CASE u # t
    <3>1. part5[u].step = "LOADED" /\ part5'[u] = part5[u]
      BY <1>1, <1>3, <2>2
    <3>2. /\ part5[u].ticket \in DOMAIN part1
          /\ part5[u].copy.version <= part1[part5[u].ticket].version
          /\ Cs!Update(part5[u]) => part5[u].copy = part1[part5[u].ticket]
          /\ Cs!TransitionTo(part5[u].copy.status, part5[u].target)
      BY <3>1 DEF Cs!ConsultationInv
    <3> QED
      BY <3>1, <3>2 DEF Cs!Update, Cs!TransitionTo
  <2> QED
    BY <2>1, <2>2
<1>4. Cs!AuditIsThePath' /\ Cs!ClosedOnTheLastAppeal'
  BY DEF Cs!ConsultationInv, Cs!AuditIsThePath, Cs!ClosedOnTheLastAppeal, Cs!Rounds
<1>5. /\ \A i \in DOMAIN part1' : Cs!Spend(part1'[i]) \subseteq part3'
      /\ \A x \in part3' : \E i \in DOMAIN part1' : x \in Cs!Spend(part1'[i])
      /\ \A i, j \in DOMAIN part1' : part1'[i].token = part1'[j].token => i = j
  BY DEF Cs!ConsultationInv
<1> QED
  BY <1>1, <1>2, <1>3, <1>4, <1>5 DEF Cs!ConsultationInv

\* A request begins, consumes, or ends without a write.
LEMMA ConsultRequestInv ==
  ASSUME Cs!ConsultationInv, NEW t \in Thread,
         \/ \E d \in Cs!Draft : d.step = "LOOKED_UP" /\ Cs!LookUp(t, d)
         \/ \E u \in Cs!User, i \in 1..Len(part1), s \in Cs!Status : Cs!Load(t, u, i, s)
         \/ Cs!Consume(t) \/ Cs!Abort(t)
  PROVE  Cs!ConsultationInv'
<1>0. Cs!NoRequest.step = "NONE"
  BY DEF Cs!NoRequest
<1>1. ASSUME NEW d \in Cs!Draft, d.step = "LOOKED_UP", Cs!LookUp(t, d) PROVE Cs!ConsultationInv'
  BY <1>1, ConsultMoves DEF Cs!LookUp
<1>2. ASSUME NEW u \in Cs!User, NEW i \in 1..Len(part1), NEW s \in Cs!Status, Cs!Load(t, u, i, s)
      PROVE  Cs!ConsultationInv'
  <2> DEFINE m == [step |-> "LOADED", by |-> u, ticket |-> i, copy |-> part1[i], target |-> s]
  <2>1. i \in DOMAIN part1 /\ part1[i] \in Cs!Ticket /\ i \in Nat
    BY ConsultTyped
  <2>2. m \in Cs!Move /\ m.ticket = i /\ m.copy = part1[i] /\ m.target = s /\ m.step = "LOADED"
    BY <2>1 DEF Cs!Move
  <2>3. part5' = [part5 EXCEPT ![t] = m] /\ Cs!TransitionTo(part1[i].status, s)
        /\ UNCHANGED <<part1, part2, part3, part4>>
    BY <1>2 DEF Cs!Load
  <2> HIDE DEF m
  <2> QED
    BY <2>1, <2>2, <2>3, ConsultMoves
<1>3. CASE Cs!Abort(t)
  BY <1>0, <1>3, ConsultMoves DEF Cs!Abort, Cs!End
<1>4. CASE Cs!Consume(t)
  <2>1. part5[t] \in Cs!Draft /\ part5[t].token \in Token
    BY <1>4, ConsultTyped DEF Cs!Consume, Cs!Draft
  <2>2. CASE Cs!ApprovalHolds(part5[t]) /\ Cs!TokenHolds(part5[t])
    <3> DEFINE d == [part5[t] EXCEPT !.step = "CONSUMED"]
    <3>1. d \in Cs!Draft /\ d.step = "CONSUMED" /\ d.token = part5[t].token
      BY <2>1 DEF Cs!Draft
    <3>2. part5' = [part5 EXCEPT ![t] = d] /\ UNCHANGED <<part1, part2, part3, part4>>
      BY <1>4, <2>2 DEF Cs!Consume
    <3>3. part5[t].token \notin part3
      BY <2>2 DEF Cs!TokenHolds
    <3>4. \A u \in Thread : part5[u].step = "CONSUMED" => part5[u].token # part5[t].token
      BY <1>4, <2>1, ServicesAssumption
         DEF Cs!Consume, Cs!Free, Cs!Locked, Cs!ConsultationAssumption
    <3> HIDE DEF d
    <3> QED
      BY <3>1, <3>2, <3>3, <3>4, ConsultMoves
  <2>3. CASE ~(Cs!ApprovalHolds(part5[t]) /\ Cs!TokenHolds(part5[t]))
    BY <1>0, <1>4, <2>3, ConsultMoves DEF Cs!Consume, Cs!End
  <2> QED
    BY <2>2, <2>3
<1> QED
  BY <1>1, <1>2, <1>3, <1>4

\* A draft commits: its ticket, and what it has consumed.
LEMMA WriteDraftInv ==
  ASSUME Cs!ConsultationInv, NEW t \in Thread, Cs!WriteDraft(t) PROVE Cs!ConsultationInv'
<1> DEFINE d == part5[t]
           new == Cs!NewTicket(d)
           n == Len(part1) + 1
<1>1. /\ d.step = "CONSUMED" /\ part1' = Append(part1, new) /\ part4' = Append(part4, <<"CREATE">>)
      /\ part2' = Cs!Recorded(d) /\ part3' = part3 \cup Cs!Spend(d)
      /\ part5' = [part5 EXCEPT ![t] = Cs!NoRequest]
  BY DEF Cs!WriteDraft, Cs!End
<1>2. /\ d \in Cs!Draft /\ d.by \in Resident /\ d.params \in Params /\ d.key \in Key
      /\ d.token \in Token /\ d.approval \in Approval \cup {NoApproval}
  BY <1>1, ConsultTyped DEF Cs!Draft
<1>3. /\ new \in Cs!Ticket /\ new.token = d.token /\ new.approval = d.approval
      /\ new.version = 1 /\ new.status = "DRAFT"
  BY <1>2 DEF Cs!NewTicket, Cs!Ticket, Cs!Status, Cs!Answer, Cs!User
<1>4. Cs!Spend(new) = Cs!Spend(d)
  BY <1>3 DEF Cs!Spend
<1> HIDE DEF new
<1>5. /\ part1' \in Seq(Cs!Ticket) /\ Len(part1') = n /\ DOMAIN part1' = 1..n
      /\ part1'[n] = new /\ \A i \in DOMAIN part1 : i \in DOMAIN part1' /\ part1'[i] = part1[i]
      /\ \A i \in DOMAIN part1' : i # n => i \in DOMAIN part1
  BY <1>1, <1>3, ConsultTyped, AppendProperties, LenProperties
<1>6. /\ part4' \in Seq(Seq({"CREATE"} \cup Cs!Status)) /\ Len(part4') = n
      /\ part4'[n] = <<"CREATE">> /\ \A i \in DOMAIN part1 : part4'[i] = part4[i]
  <2>1. <<"CREATE">> \in Seq({"CREATE"} \cup Cs!Status)
    OBVIOUS
  <2>2. part4 \in Seq(Seq({"CREATE"} \cup Cs!Status)) /\ Len(part4) = Len(part1)
        /\ DOMAIN part1 = 1..Len(part1)
    BY ConsultTyped
  <2> DEFINE S == Seq({"CREATE"} \cup Cs!Status)
  <2> HIDE DEF S
  <2>3. part4 \in Seq(S) /\ <<"CREATE">> \in S
    BY <2>1, <2>2 DEF S
  <2>4. /\ part4' \in Seq(S) /\ Len(part4') = Len(part4) + 1 /\ part4'[Len(part4) + 1] = <<"CREATE">>
        /\ \A i \in 1..Len(part4) : part4'[i] = part4[i]
    BY <1>1, <2>3, AppendProperties
  <2> QED
    BY <2>2, <2>4 DEF S
<1>7. part5'[t] = Cs!NoRequest /\ \A u \in Thread \ {t} : part5'[u] = part5[u]
  BY <1>1 DEF Cs!ConsultationInv, Cs!TypeOK
<1>8. n \in Nat \ {0} /\ n \notin DOMAIN part1
  BY ConsultTyped
<1>9. Cs!TypeOK'
  <2>1. part3' \subseteq Token \cup Approval
    BY <1>1, <1>2, TokensApart DEF Cs!ConsultationInv, Cs!TypeOK
  <2>2. part2' \in [Resident \X Key -> {Cs!NoRecord} \cup [params : Params, ticket : Nat \ {0}]]
    BY <1>1, <1>2, <1>8 DEF Cs!Recorded, Cs!ConsultationInv, Cs!TypeOK
  <2>3. part5' \in [Thread -> {Cs!NoRequest} \cup Cs!Draft \cup Cs!Move]
    BY <1>1 DEF Cs!ConsultationInv, Cs!TypeOK
  <2> QED
    BY <1>5, <1>6, <2>1, <2>2, <2>3 DEF Cs!TypeOK
<1>10. /\ \A i \in DOMAIN part1' : Cs!Spend(part1'[i]) \subseteq part3'
       /\ \A x \in part3' : \E i \in DOMAIN part1' : x \in Cs!Spend(part1'[i])
  <2>1. ASSUME NEW i \in DOMAIN part1' PROVE Cs!Spend(part1'[i]) \subseteq part3'
    <3>1. CASE i = n
      BY <1>1, <1>4, <1>5, <3>1
    <3>2. CASE i # n
      <4>1. i \in DOMAIN part1 /\ part1'[i] = part1[i]
        BY <1>5, <3>2
      <4>2. Cs!Spend(part1[i]) \subseteq part3
        BY <4>1 DEF Cs!ConsultationInv
      <4> QED
        BY <1>1, <4>1, <4>2
    <3> QED
      BY <3>1, <3>2
  <2>2. ASSUME NEW x \in part3' PROVE \E i \in DOMAIN part1' : x \in Cs!Spend(part1'[i])
    <3>1. CASE x \in part3
      <4>1. PICK i \in DOMAIN part1 : x \in Cs!Spend(part1[i])
        BY <3>1 DEF Cs!ConsultationInv
      <4> QED
        BY <1>5, <4>1
    <3>2. CASE x \in Cs!Spend(d)
      BY <1>4, <1>5, <1>8, <3>2
    <3> QED
      BY <1>1, <3>1, <3>2
  <2> QED
    BY <2>1, <2>2
<1>11. d.token \notin part3 /\ d.token \in Cs!Spend(d)
       /\ \A x \in Token : x \in Cs!Spend(d) => x = d.token
  BY <1>1, <1>2, TokensApart DEF Cs!ConsultationInv
<1>12. \A i \in DOMAIN part1 : part1[i].token # d.token
  <2> SUFFICES ASSUME NEW i \in DOMAIN part1 PROVE part1[i].token # d.token
    OBVIOUS
  <2>1. part1[i].token \in Cs!Spend(part1[i])
    BY ConsultTyped, TokensApart DEF Cs!Ticket
  <2> QED
    BY <1>11, <2>1 DEF Cs!ConsultationInv
<1>13. ASSUME NEW i \in DOMAIN part1', NEW j \in DOMAIN part1', part1'[i].token = part1'[j].token
       PROVE  i = j
  <2>1. CASE i = n /\ j = n
    BY <2>1
  <2>2. CASE i # n /\ j # n
    BY <1>5, <1>13, <2>2 DEF Cs!ConsultationInv
  <2>3. CASE i = n /\ j # n
    BY <1>3, <1>5, <1>12, <1>13, <2>3
  <2>4. CASE i # n /\ j = n
    BY <1>3, <1>5, <1>12, <1>13, <2>4
  <2> QED
    BY <2>1, <2>2, <2>3, <2>4
<1>14. ASSUME NEW u \in Thread, part5'[u].step = "CONSUMED"
       PROVE  /\ part5'[u].token \notin part3'
              /\ \A v \in Thread \ {u} :
                    part5'[v].step = "CONSUMED" => part5'[v].token # part5'[u].token
  <2>1. u # t /\ part5'[u] = part5[u]
    BY <1>7, <1>14 DEF Cs!NoRequest
  <2>2. /\ part5[u].token \notin part3 /\ part5[u].token # d.token
        /\ \A v \in Thread \ {u} : part5[v].step = "CONSUMED" => part5[v].token # part5[u].token
    BY <1>1, <1>14, <2>1 DEF Cs!ConsultationInv
  <2>3. part5[u].token \in Token
    BY <1>14, <2>1, ConsultTyped DEF Cs!Draft
  <2>4. part5[u].token \notin part3'
    BY <1>1, <1>11, <2>2, <2>3
  <2>5. \A v \in Thread \ {u} : part5'[v].step = "CONSUMED" => part5'[v] = part5[v]
    BY <1>7 DEF Cs!NoRequest
  <2> QED
    BY <2>1, <2>2, <2>4, <2>5
<1>15. ASSUME NEW u \in Thread, part5'[u].step = "LOADED"
       PROVE  /\ part5'[u].ticket \in DOMAIN part1'
              /\ part5'[u].copy.version <= part1'[part5'[u].ticket].version
              /\ Cs!Update(part5[u])' => part5'[u].copy = part1'[part5'[u].ticket]
              /\ Cs!TransitionTo(part5[u].copy.status, part5[u].target)'
  <2>1. u # t /\ part5'[u] = part5[u] /\ part5[u].step = "LOADED"
    BY <1>7, <1>15 DEF Cs!NoRequest
  <2>2. /\ part5[u].ticket \in DOMAIN part1
        /\ part5[u].copy.version <= part1[part5[u].ticket].version
        /\ Cs!Update(part5[u]) => part5[u].copy = part1[part5[u].ticket]
        /\ Cs!TransitionTo(part5[u].copy.status, part5[u].target)
    BY <2>1 DEF Cs!ConsultationInv
  <2>3. part5[u].ticket \in DOMAIN part1' /\ part1'[part5[u].ticket] = part1[part5[u].ticket]
    BY <1>5, <2>2
  <2> QED
    BY <2>1, <2>2, <2>3 DEF Cs!Update, Cs!TransitionTo
<1>16. Cs!AuditIsThePath'
  <2> SUFFICES ASSUME NEW i \in DOMAIN part1'
               PROVE  /\ Len(part4'[i]) = part1'[i].version
                      /\ part1'[i].status = IF Len(part4'[i]) = 1 THEN "DRAFT" ELSE part4'[i][Len(part4'[i])]
                      /\ \A k \in 2..Len(part4'[i]) :
                            <<IF k = 2 THEN "DRAFT" ELSE part4'[i][k - 1], part4'[i][k]>> \in Cs!Allowed
    BY DEF Cs!AuditIsThePath
  <2>1. CASE i = n
    <3>1. part4'[i] = <<"CREATE">> /\ part1'[i] = new /\ Len(<<"CREATE">>) = 1
      BY <1>5, <1>6, <2>1
    <3> QED
      BY <1>3, <3>1
  <2>2. CASE i # n
    <3>1. i \in DOMAIN part1 /\ part1'[i] = part1[i] /\ part4'[i] = part4[i]
      BY <1>5, <1>6, <2>2
    <3> QED
      BY <3>1 DEF Cs!ConsultationInv, Cs!AuditIsThePath
  <2> QED
    BY <2>1, <2>2
<1>17. Cs!ClosedOnTheLastAppeal'
  <2> SUFFICES ASSUME NEW i \in DOMAIN part1', part1'[i].status \in {"ANSWERED", "RESOLVED"}
               PROVE  part1'[i].answer # Cs!NoAnswer /\ part1'[i].answer.round = Cs!Rounds(i)'
    BY DEF Cs!ClosedOnTheLastAppeal
  <2>1. i # n
    BY <1>3, <1>5
  <2>2. i \in DOMAIN part1 /\ part1'[i] = part1[i] /\ part4'[i] = part4[i]
    BY <1>5, <1>6, <2>1
  <2>3. Cs!Rounds(i)' = Cs!Rounds(i)
    BY <2>2 DEF Cs!Rounds
  <2> QED
    BY <2>2, <2>3 DEF Cs!ConsultationInv, Cs!ClosedOnTheLastAppeal
<1> QED
  BY <1>9, <1>10, <1>13, <1>14, <1>15, <1>16, <1>17 DEF Cs!ConsultationInv

\* The appeals of a ticket are counted.
LEMMA RoundsTyped ==
  ASSUME Cs!ConsultationInv, NEW i \in DOMAIN part1 PROVE Cs!Rounds(i) \in Nat
<1> DEFINE R == {k \in DOMAIN part4[i] : part4[i][k] = "APPEALED"}
<1>1. part4[i] \in Seq({"CREATE"} \cup Cs!Status)
  BY ConsultTyped
<1>2. DOMAIN part4[i] = 1..Len(part4[i]) /\ Len(part4[i]) \in Nat
  BY <1>1, LenProperties
<1>3. IsFiniteSet(1..Len(part4[i])) /\ R \subseteq 1..Len(part4[i])
  BY <1>2, FS_Interval
<1> HIDE DEF R
<1>4. Cardinality(R) \in Nat
  BY <1>3, FS_Subset, FS_CardinalityType
<1> QED
  BY <1>4, SameCardinality DEF Cs!Rounds, R

\* A transition commits over the version it has read: its ticket takes one more
\* step of its path.
LEMMA WriteMoveInv ==
  ASSUME Cs!ConsultationInv, NEW t \in Thread, Cs!WriteMove(t) PROVE Cs!ConsultationInv'
<1> DEFINE m == part5[t]
           i == m.ticket
           new == [m.copy EXCEPT !.status = m.target, !.answer = Cs!Answered(m),
                                 !.version = m.copy.version + 1]
<1>1. m.step = "LOADED" /\ part5' = [part5 EXCEPT ![t] = Cs!NoRequest] /\ UNCHANGED <<part2, part3>>
  BY DEF Cs!WriteMove, Cs!End
<1>2. CASE ~Cs!Update(m)
  <2>1. Cs!NoRequest.step = "NONE"
    BY DEF Cs!NoRequest
  <2> QED
    BY <1>1, <1>2, <2>1, ConsultMoves DEF Cs!WriteMove
<1>3. CASE Cs!Update(m)
  <2>1. /\ m \in Cs!Move /\ i \in DOMAIN part1 /\ m.copy = part1[i]
        /\ Cs!TransitionTo(m.copy.status, m.target)
    BY <1>1, <1>3, ConsultTyped DEF Cs!ConsultationInv
  <2>2. m.by \in Cs!User /\ m.copy \in Cs!Ticket /\ m.target \in Cs!Status
        /\ Cs!Rounds(i) \in Nat
    BY <2>1, RoundsTyped DEF Cs!Move
  <2>3. Cs!Answered(m) \in Cs!Answer
    BY <2>2 DEF Cs!Answered, Cs!Answer, Cs!Ticket
  <2>4. /\ new \in Cs!Ticket /\ new.status = m.target /\ new.answer = Cs!Answered(m)
        /\ new.version = m.copy.version + 1 /\ new.token = m.copy.token
        /\ new.approval = m.copy.approval
    <3> DEFINE c == m.copy
               v == c.version + 1
               a == Cs!Answered(m)
               s == m.target
    <3>1. c \in Cs!Ticket /\ c.version \in Nat \ {0} /\ s \in Cs!Status /\ a \in Cs!Answer
      BY <2>2, <2>3 DEF Cs!Ticket
    <3>2. v \in Nat \ {0}
      BY <3>1
    <3>3. new = [c EXCEPT !.status = s, !.answer = a, !.version = v]
      OBVIOUS
    <3> HIDE DEF new, c, v, a, s
    <3>4. /\ new \in Cs!Ticket /\ new.status = s /\ new.answer = a /\ new.version = v
          /\ new.token = c.token /\ new.approval = c.approval
      BY <3>1, <3>2, <3>3 DEF Cs!Ticket
    <3> QED
      BY <3>4 DEF c, v, a, s
  <2>5. part1' = [part1 EXCEPT ![i] = new] /\ part4' = [part4 EXCEPT ![i] = Append(part4[i], m.target)]
    BY <1>3 DEF Cs!WriteMove
  <2> HIDE DEF new
  <2> DEFINE path == part4[i]
             L == Len(path)
             next == Append(path, m.target)
  <2>6. /\ path \in Seq({"CREATE"} \cup Cs!Status) /\ DOMAIN path = 1..L /\ L \in Nat
        /\ m.target \in {"CREATE"} \cup Cs!Status
    BY <2>1, <2>2, ConsultTyped, LenProperties
  <2>7. /\ next \in Seq({"CREATE"} \cup Cs!Status) /\ Len(next) = L + 1 /\ DOMAIN next = 1..L + 1
        /\ next[L + 1] = m.target /\ \A k \in 1..L : next[k] = path[k]
    BY <2>6, AppendProperties, LenProperties
  <2> HIDE DEF next
  <2>8. /\ part1' \in Seq(Cs!Ticket) /\ Len(part1') = Len(part1) /\ DOMAIN part1' = DOMAIN part1
        /\ part1'[i] = new /\ \A j \in DOMAIN part1 : j # i => part1'[j] = part1[j]
    BY <2>1, <2>4, <2>5, ConsultTyped, ExceptSeq
  <2>9. /\ part4' \in Seq(Seq({"CREATE"} \cup Cs!Status)) /\ Len(part4') = Len(part4)
        /\ part4'[i] = next /\ \A j \in DOMAIN part1 : j # i => part4'[j] = part4[j]
    <3> DEFINE S == Seq({"CREATE"} \cup Cs!Status)
    <3>1. part4 \in Seq(S) /\ next \in S /\ i \in DOMAIN part4 /\ DOMAIN part4 = DOMAIN part1
      BY <2>1, <2>7, ConsultTyped
    <3>2. part4' = [part4 EXCEPT ![i] = next]
      BY <2>5 DEF next
    <3> HIDE DEF S
    <3>3. part4' \in Seq(S) /\ Len(part4') = Len(part4)
      BY <3>1, <3>2, ExceptSeq
    <3> QED
      BY <3>1, <3>2, <3>3 DEF S
  <2>10. part5'[t] = Cs!NoRequest /\ \A u \in Thread \ {t} : part5'[u] = part5[u]
    BY <1>1 DEF Cs!ConsultationInv, Cs!TypeOK
  <2>11. Cs!TypeOK'
    BY <1>1, <2>8, <2>9, ConsultTyped DEF Cs!ConsultationInv, Cs!TypeOK
  <2>12. \A j \in DOMAIN part1 : /\ part1'[j].token = part1[j].token
                                 /\ Cs!Spend(part1'[j]) = Cs!Spend(part1[j])
    BY <2>1, <2>4, <2>8 DEF Cs!Spend
  <2>13. /\ \A j \in DOMAIN part1' : Cs!Spend(part1'[j]) \subseteq part3'
         /\ \A x \in part3' : \E j \in DOMAIN part1' : x \in Cs!Spend(part1'[j])
         /\ \A j, k \in DOMAIN part1' : part1'[j].token = part1'[k].token => j = k
    BY <1>1, <2>8, <2>12 DEF Cs!ConsultationInv
  <2>14. \A u \in Thread : part5'[u].step = "CONSUMED" =>
            /\ part5'[u].token \notin part3'
            /\ \A v \in Thread \ {u} :
                  part5'[v].step = "CONSUMED" => part5'[v].token # part5'[u].token
    BY <1>1, <2>10 DEF Cs!ConsultationInv, Cs!NoRequest
  <2>15. ASSUME NEW u \in Thread, part5'[u].step = "LOADED"
         PROVE  /\ part5'[u].ticket \in DOMAIN part1'
                /\ part5'[u].copy.version <= part1'[part5'[u].ticket].version
                /\ Cs!Update(part5[u])' => part5'[u].copy = part1'[part5'[u].ticket]
                /\ Cs!TransitionTo(part5[u].copy.status, part5[u].target)'
    <3>1. u # t /\ part5'[u] = part5[u] /\ part5[u].step = "LOADED"
      BY <2>10, <2>15 DEF Cs!NoRequest
    <3>2. /\ part5[u].ticket \in DOMAIN part1
          /\ part5[u].copy.version <= part1[part5[u].ticket].version
          /\ Cs!Update(part5[u]) => part5[u].copy = part1[part5[u].ticket]
          /\ Cs!TransitionTo(part5[u].copy.status, part5[u].target)
      BY <3>1 DEF Cs!ConsultationInv
    <3>3. CASE part5[u].ticket # i
      BY <2>8, <3>1, <3>2, <3>3 DEF Cs!Update, Cs!TransitionTo
    <3>4. CASE part5[u].ticket = i
      <4>1. part5[u].copy.version \in Nat /\ m.copy.version \in Nat
        BY <2>2, <3>1, ConsultTyped DEF Cs!Move, Cs!Ticket
      <4>2. part5[u].copy.version < part1'[i].version
        BY <2>1, <2>4, <2>8, <3>2, <3>4, <4>1
      <4>3. part1'[i].version \in Nat
        BY <2>4, <2>8, <4>1
      <4>4. part5'[u].ticket = i /\ part5'[u].copy.version # part1'[i].version
            /\ part5'[u].copy.version <= part1'[i].version
        BY <3>1, <3>4, <4>1, <4>2, <4>3
      <4> QED
        BY <2>1, <2>8, <3>1, <3>2, <4>4 DEF Cs!Update, Cs!TransitionTo
    <3> QED
      BY <3>3, <3>4
  <2>16. /\ L = m.copy.version /\ L # 0
         /\ m.copy.status = IF L = 1 THEN "DRAFT" ELSE path[L]
         /\ \A k \in 2..L : <<IF k = 2 THEN "DRAFT" ELSE path[k - 1], path[k]>> \in Cs!Allowed
    BY <2>1, <2>2 DEF Cs!ConsultationInv, Cs!AuditIsThePath, Cs!Ticket
  <2>17. Cs!AuditIsThePath'
    <3> SUFFICES ASSUME NEW j \in DOMAIN part1'
                 PROVE  /\ Len(part4'[j]) = part1'[j].version
                        /\ part1'[j].status = IF Len(part4'[j]) = 1 THEN "DRAFT" ELSE part4'[j][Len(part4'[j])]
                        /\ \A k \in 2..Len(part4'[j]) :
                              <<IF k = 2 THEN "DRAFT" ELSE part4'[j][k - 1], part4'[j][k]>> \in Cs!Allowed
      BY DEF Cs!AuditIsThePath
    <3>1. CASE j # i
      <4>1. j \in DOMAIN part1 /\ part1'[j] = part1[j] /\ part4'[j] = part4[j]
        BY <2>8, <2>9, <3>1
      <4> QED
        BY <4>1 DEF Cs!ConsultationInv, Cs!AuditIsThePath
    <3>2. CASE j = i
      <4>1. part4'[j] = next /\ part1'[j] = new
        BY <2>8, <2>9, <3>2
      <4>2. L \in Nat /\ L # 0 /\ Len(next) = L + 1
        BY <2>6, <2>7, <2>16
      <4>3. ASSUME NEW k \in 2..L + 1
            PROVE  <<IF k = 2 THEN "DRAFT" ELSE next[k - 1], next[k]>> \in Cs!Allowed
        <5>1. CASE k = L + 1
          <6>1. CASE L = 1
            <7>1. k = 2 /\ m.copy.status = "DRAFT"
              BY <2>16, <5>1, <6>1
            <7> QED
              BY <2>1, <2>7, <5>1, <7>1 DEF Cs!TransitionTo
          <6>2. CASE L # 1
            <7>1. k # 2 /\ k - 1 = L /\ L \in 1..L /\ m.copy.status = path[L]
              BY <2>6, <2>16, <5>1, <6>2
            <7>2. next[k - 1] = m.copy.status /\ next[k] = m.target
              BY <2>7, <5>1, <7>1
            <7> QED
              BY <2>1, <7>1, <7>2 DEF Cs!TransitionTo
          <6> QED
            BY <6>1, <6>2
        <5>2. CASE k # L + 1
          <6>1. k \in 2..L /\ k \in 1..L /\ (k # 2 => k - 1 \in 1..L)
            <7> HIDE DEF L
            <7> QED
              BY <4>2, <5>2
          <6>2. next[k] = path[k] /\ (k # 2 => next[k - 1] = path[k - 1])
            BY <2>7, <6>1
          <6> QED
            BY <2>16, <6>1, <6>2
        <5> QED
          BY <5>1, <5>2
      <4> QED
        <5>1. Len(next) # 1
          <6> HIDE DEF L
          <6> QED
            BY <4>2
        <5> QED
          BY <2>4, <2>7, <2>16, <4>1, <4>2, <4>3, <5>1
    <3> QED
      BY <3>1, <3>2
  <2>18. Cs!ClosedOnTheLastAppeal'
    <3> SUFFICES ASSUME NEW j \in DOMAIN part1', part1'[j].status \in {"ANSWERED", "RESOLVED"}
                 PROVE  part1'[j].answer # Cs!NoAnswer /\ part1'[j].answer.round = Cs!Rounds(j)'
      BY DEF Cs!ClosedOnTheLastAppeal
    <3>1. CASE j # i
      <4>1. j \in DOMAIN part1 /\ part1'[j] = part1[j] /\ part4'[j] = part4[j]
        BY <2>8, <2>9, <3>1
      <4>2. Cs!Rounds(j)' = Cs!Rounds(j)
        BY <4>1 DEF Cs!Rounds
      <4> QED
        BY <4>1, <4>2 DEF Cs!ConsultationInv, Cs!ClosedOnTheLastAppeal
    <3>2. CASE j = i
      <4>1. m.target \in {"ANSWERED", "RESOLVED"} /\ part1'[j].answer = Cs!Answered(m)
        BY <2>4, <2>8, <3>2
      <4>2. {k \in DOMAIN next : next[k] = "APPEALED"} = {k \in DOMAIN path : path[k] = "APPEALED"}
        <5>1. next[L + 1] # "APPEALED"
          BY <2>7, <4>1
        <5>2. /\ DOMAIN path \subseteq DOMAIN next
              /\ \A k \in DOMAIN next : k # L + 1 => k \in DOMAIN path
          BY <2>6, <2>7
        <5>3. \A k \in DOMAIN path : next[k] = path[k]
          BY <2>6, <2>7
        <5> HIDE DEF path, L
        <5> QED
          BY <5>1, <5>2, <5>3
      <4>3. Cs!Rounds(j)' = Cs!Rounds(i)
        BY <2>9, <2>1, <3>2, <4>2 DEF Cs!Rounds
      <4>4. CASE m.target = "ANSWERED"
        <5>1. part1'[j].answer = [by |-> m.by, round |-> Cs!Rounds(i)]
          BY <4>1, <4>4 DEF Cs!Answered
        <5>2. m.by # "NONE"
          BY <2>2, ServicesAssumption DEF Cs!ConsultationAssumption
        <5> QED
          BY <4>3, <5>1, <5>2 DEF Cs!NoAnswer
      <4>5. CASE m.target = "RESOLVED"
        <5>1. m.copy.status = "ANSWERED"
          BY <2>1, <4>5 DEF Cs!TransitionTo, Cs!Allowed
        <5>2. part1[i].answer # Cs!NoAnswer /\ part1[i].answer.round = Cs!Rounds(i)
          BY <2>1, <5>1 DEF Cs!ConsultationInv, Cs!ClosedOnTheLastAppeal
        <5> QED
          BY <2>1, <4>1, <4>3, <4>5, <5>2 DEF Cs!Answered
      <4> QED
        BY <4>1, <4>4, <4>5
    <3> QED
      BY <3>1, <3>2
  <2> QED
    BY <2>11, <2>13, <2>14, <2>15, <2>17, <2>18 DEF Cs!ConsultationInv
<1> QED
  BY <1>2, <1>3

\* No step and no other scene disturbs it.
LEMMA ConsultStep ==
  ASSUME scene = "consultation" => Cs!ConsultationInv, [ServicesNext]_servicesVars
  PROVE  (scene = "consultation" => Cs!ConsultationInv)'
<1>1. CASE UNCHANGED servicesVars
  <2> SUFFICES ASSUME Cs!ConsultationInv PROVE Cs!ConsultationInv'
    BY <1>1 DEF servicesVars
  <2>0. UNCHANGED <<part1, part2, part3, part4, part5>>
    BY <1>1 DEF servicesVars
  <2>1. Cs!TypeOK'
    BY <2>0 DEF Cs!ConsultationInv, Cs!TypeOK
  <2>2. /\ \A i \in DOMAIN part1' : Cs!Spend(part1'[i]) \subseteq part3'
        /\ \A x \in part3' : \E i \in DOMAIN part1' : x \in Cs!Spend(part1'[i])
        /\ \A i, j \in DOMAIN part1' : part1'[i].token = part1'[j].token => i = j
    BY <2>0 DEF Cs!ConsultationInv
  <2>3. \A t \in Thread : part5'[t].step = "CONSUMED" =>
           /\ part5'[t].token \notin part3'
           /\ \A u \in Thread \ {t} :
                 part5'[u].step = "CONSUMED" => part5'[u].token # part5'[t].token
    BY <2>0 DEF Cs!ConsultationInv
  <2>4. ASSUME NEW t \in Thread, part5'[t].step = "LOADED"
        PROVE  /\ part5'[t].ticket \in DOMAIN part1'
               /\ part5'[t].copy.version <= part1'[part5'[t].ticket].version
               /\ Cs!Update(part5[t])' => part5'[t].copy = part1'[part5'[t].ticket]
               /\ Cs!TransitionTo(part5[t].copy.status, part5[t].target)'
    BY <2>0, <2>4 DEF Cs!ConsultationInv, Cs!Update, Cs!TransitionTo
  <2>5. Cs!AuditIsThePath'
    BY <2>0 DEF Cs!ConsultationInv, Cs!AuditIsThePath
  <2>6. \A i \in DOMAIN part1 : Cs!Rounds(i)' = Cs!Rounds(i)
    BY <2>0 DEF Cs!Rounds
  <2>7. Cs!ClosedOnTheLastAppeal'
    BY <2>0, <2>6 DEF Cs!ConsultationInv, Cs!ClosedOnTheLastAppeal
  <2> QED
    BY <2>1, <2>2, <2>3, <2>4, <2>5, <2>7 DEF Cs!ConsultationInv
<1>2. CASE ServicesNext
  <2> SUFFICES ASSUME scene' = "consultation" PROVE Cs!ConsultationInv'
    OBVIOUS
  <2>1. scene = "consultation"
    BY <1>2 DEF ServicesNext
  <2>2. Cs!Next
    BY <1>2, <2>1 DEF ServicesNext, InParts
  <2> QED
    BY <2>1, <2>2, ConsultRequestInv, WriteDraftInv, WriteMoveInv
       DEF Cs!Next, Cs!LookUpNext, Cs!LoadNext
<1> QED
  BY <1>1, <1>2

\* Nothing exists before the first draft.
LEMMA ConsultInitInv == Cs!Init => Cs!ConsultationInv
<1> SUFFICES ASSUME Cs!Init PROVE Cs!ConsultationInv
  OBVIOUS
<1>1. Cs!TypeOK
  BY DEF Cs!Init, Cs!TypeOK
<1>2. DOMAIN part1 = {} /\ part3 = {} /\ \A t \in Thread : part5[t].step = "NONE"
  BY DEF Cs!Init, Cs!NoRequest
<1> QED
  BY <1>1, <1>2 DEF Cs!ConsultationInv, Cs!AuditIsThePath, Cs!ClosedOnTheLastAppeal

\* A token makes the one ticket it is consumed with, whatever requests present
\* it at once, for any number of residents, keys and tokens
\* (ConfirmationService.consume, ConsultationService.create_draft).
THEOREM TokensMakeOneTicket == ServicesSpec => []ConsumedWithItsTicket
<1>1. ServicesInit => (scene = "consultation" => Cs!ConsultationInv)
  BY ConsultInitInv DEF ServicesInit
<1>2. (scene = "consultation" => Cs!ConsultationInv) => ConsumedWithItsTicket
  <2> SUFFICES ASSUME Cs!ConsultationInv PROVE Cs!ConsumedWithItsTicket
    BY DEF ConsumedWithItsTicket
  <2>1. \A i \in DOMAIN part1 :
           /\ part1[i].token \in Cs!Spend(part1[i])
           /\ \A x \in Token : x \in Cs!Spend(part1[i]) => x = part1[i].token
           /\ \A x \in Approval : x \in Cs!Spend(part1[i]) <=> x = part1[i].approval
    BY ConsultTyped, TokensApart DEF Cs!Ticket
  <2>2. /\ \A i \in DOMAIN part1 : Cs!Spend(part1[i]) \subseteq part3
        /\ \A x \in part3 : \E i \in DOMAIN part1 : x \in Cs!Spend(part1[i])
        /\ \A i, j \in DOMAIN part1 : part1[i].token = part1[j].token => i = j
    BY DEF Cs!ConsultationInv
  <2>3. ASSUME NEW x \in Token
        PROVE  Cs!Cardinality({i \in DOMAIN part1 : part1[i].token = x}) = IF x \in part3 THEN 1 ELSE 0
    <3> DEFINE I == {i \in DOMAIN part1 : part1[i].token = x}
    <3>1. CASE x \in part3
      <4>1. PICK i \in DOMAIN part1 : part1[i].token = x
        BY <2>1, <2>2, <3>1
      <4>2. I = {i}
        BY <2>2, <4>1
      <4>3. Cardinality({i}) = 1
        BY FS_Singleton
      <4> QED
        BY <3>1, <4>2, <4>3, SameCardinality
    <3>2. CASE x \notin part3
      <4>1. I = {}
        BY <2>1, <2>2, <3>2
      <4>2. Cardinality({}) = 0
        BY FS_EmptySet
      <4> QED
        BY <3>2, <4>1, <4>2, SameCardinality
    <3> QED
      BY <3>1, <3>2
  <2>4. \A x \in Approval : x \in part3 <=> \E i \in DOMAIN part1 : part1[i].approval = x
    BY <2>1, <2>2
  <2> QED
    BY <2>3, <2>4 DEF Cs!ConsumedWithItsTicket
<1> QED
  BY <1>1, <1>2, ConsultStep, PTL DEF ServicesSpec

\* The audit of a ticket is a path of its state machine, one action for each
\* version, and what closes it was written after the last appeal, for any number
\* of users and tickets (ConsultationService._transition).
THEOREM AppealsAreAnswered == ServicesSpec => []AppealsAreHeard
<1>1. ServicesInit => (scene = "consultation" => Cs!ConsultationInv)
  BY ConsultInitInv DEF ServicesInit
<1>2. (scene = "consultation" => Cs!ConsultationInv) => AppealsAreHeard
  BY DEF Cs!ConsultationInv, AppealsAreHeard
<1> QED
  BY <1>1, <1>2, ConsultStep, PTL DEF ServicesSpec

-----------------------------------------------------------------------------
(* Memory: row, recent and request are the parts 1 to 3.                   *)

\* Rows and transactions, by what a transaction is doing.
LEMMA MemoryTyped ==
  ASSUME Mem!MemoryInv
  PROVE  /\ part1 \in Seq(Mem!Row) /\ DOMAIN part1 = Mem!Rows /\ Len(part1) \in Nat
         /\ Mem!Rows = 1..Len(part1)
         /\ \A i \in Mem!Rows : part1[i] \in Mem!Row /\ i \in Nat /\ i # 0
         /\ part2 \in Seq(Mem!Rows) /\ DOMAIN part2 = 1..Len(part2) /\ Len(part2) \in Nat
         /\ \A n \in DOMAIN part2 : part2[n] \in Mem!Rows
         /\ part3 \in [Thread -> {Mem!NoRequest} \cup Mem!Asked \cup Mem!Placed \cup Mem!Creating]
<1>1. part1 \in Seq(Mem!Row) /\ part2 \in Seq(1..Len(part1))
      /\ part3 \in [Thread -> {Mem!NoRequest} \cup Mem!Asked \cup Mem!Placed \cup Mem!Creating]
  BY DEF Mem!MemoryInv, Mem!TypeOK
<1>2. DOMAIN part1 = 1..Len(part1) /\ Len(part1) \in Nat
      /\ DOMAIN part2 = 1..Len(part2) /\ Len(part2) \in Nat
  BY <1>1, LenProperties
<1>3. /\ \A i \in 1..Len(part1) : part1[i] \in Mem!Row /\ i \in Nat /\ i # 0
      /\ \A n \in DOMAIN part2 : part2[n] \in 1..Len(part1)
  BY <1>1, <1>2, ElementOfSeq
<1> QED
  BY <1>1, <1>2, <1>3 DEF Mem!Rows

\* The kinds of transaction.
LEMMA PlacedOrCreating ==
  ASSUME Mem!MemoryInv, NEW t \in Thread
  PROVE  /\ part3[t].op \in {"NONE", "PERSIST", "CREATE"}
         /\ part3[t].op = "PERSIST" => part3[t].cand \in Candidate /\ part3[t].source \in Source
         /\ Mem!Stating(t) => part3[t] \in Mem!Placed
         /\ part3[t].op = "CREATE" => part3[t] \in Mem!Creating
         /\ Mem!Holding(t) => part3[t].old \in Nat
<1>1. part3[t] \in {Mem!NoRequest} \cup Mem!Asked \cup Mem!Placed \cup Mem!Creating
  BY MemoryTyped
<1>2. CASE part3[t] = Mem!NoRequest
  BY <1>2 DEF Mem!NoRequest, Mem!Stating, Mem!Holding
<1>3. CASE part3[t] \in Mem!Asked
  BY <1>3 DEF Mem!Asked, Mem!Stating, Mem!Holding
<1>4. CASE part3[t] \in Mem!Placed
  BY <1>4 DEF Mem!Placed, Mem!Stating, Mem!Holding
<1>5. CASE part3[t] \in Mem!Creating
  BY <1>5 DEF Mem!Creating, Mem!Stating, Mem!Holding
<1> QED
  BY <1>1, <1>2, <1>3, <1>4, <1>5

\* An order of the rows that are active, each of them once.
Orders(seq, rows) ==
    /\ seq \in Seq(1..Len(rows))
    /\ \A n \in DOMAIN seq : rows[seq[n]].life = "ACTIVE"
    /\ \A m, n \in DOMAIN seq : seq[m] = seq[n] => m = n
    /\ \A i \in 1..Len(rows) : rows[i].life = "ACTIVE" => \E n \in DOMAIN seq : seq[n] = i

\* One of them is taken out.
LEMMA OthersAre ==
  ASSUME NEW S, NEW seq \in Seq(S), \A m, n \in DOMAIN seq : seq[m] = seq[n] => m = n, NEW x
  PROVE  LET w == Mem!RemoveFirst(seq, x) IN
         /\ w \in Seq(S)
         /\ \A n \in DOMAIN w : w[n] # x /\ \E m \in DOMAIN seq : w[n] = seq[m]
         /\ \A m, n \in DOMAIN w : w[m] = w[n] => m = n
         /\ \A m \in DOMAIN seq : seq[m] # x => \E n \in DOMAIN w : w[n] = seq[m]
<1> DEFINE w == Mem!RemoveFirst(seq, x)
           I == {i \in 1..Len(seq) : seq[i] = x}
<1>1. Len(seq) \in Nat /\ DOMAIN seq = 1..Len(seq)
  BY LenProperties
<1>2. CASE I = {}
  <2>1. w = seq
    BY <1>2 DEF Mem!RemoveFirst
  <2> QED
    BY <1>1, <1>2, <2>1
<1>3. CASE I # {}
  <2> DEFINE k == Mem!Min(I)
  <2>1. k \in I
    <3>1. I \subseteq Nat
      BY <1>1
    <3> HIDE DEF I
    <3> QED
      BY <1>3, <3>1, LeastOf DEF Mem!Min
  <2>2. Mem!SelectInSeq(seq, LAMBDA v : v = x) = k
    BY <1>3 DEF Mem!SelectInSeq
  <2> HIDE DEF k
  <2>3. k \in 1..Len(seq) /\ seq[k] = x
    BY <2>1
  <2>4. w = SubSeq(seq, 1, k - 1) \o SubSeq(seq, k + 1, Len(seq))
    BY <2>2, <2>3 DEF Mem!RemoveFirst, Mem!RemoveAt
  <2> HIDE DEF w
  <2>5. /\ w \in Seq(S) /\ Len(w) = Len(seq) - 1
        /\ \A i \in 1..Len(w) : w[i] = IF i < k THEN seq[i] ELSE seq[i + 1]
    BY <2>3, <2>4, WithoutNth
  <2> DEFINE at(i) == IF i < k THEN i ELSE i + 1
  <2>6. ASSUME NEW i \in DOMAIN w
        PROVE  at(i) \in DOMAIN seq /\ at(i) # k /\ w[i] = seq[at(i)] /\ i \in Nat
    <3>1. i \in 1..Len(seq) - 1 /\ w[i] = IF i < k THEN seq[i] ELSE seq[i + 1]
      BY <2>5, LenProperties
    <3> QED
      BY <1>1, <2>3, <3>1
  <2>7. ASSUME NEW i \in DOMAIN w, NEW j \in DOMAIN w, at(i) = at(j) PROVE i = j
    BY <2>3, <2>6, <2>7
  <2>10. ASSUME NEW j \in DOMAIN seq, seq[j] # x PROVE \E n \in DOMAIN w : w[n] = seq[j]
    <3>1. j \in 1..Len(seq) /\ j # k
      BY <1>1, <2>3, <2>10
    <3>2. CASE j < k
      <4>1. j \in DOMAIN w /\ w[j] = seq[j]
        BY <1>1, <2>3, <2>5, <3>1, <3>2, LenProperties
      <4> QED
        BY <4>1
    <3>3. CASE j > k
      <4>1. j - 1 \in DOMAIN w /\ w[j - 1] = seq[j]
        BY <1>1, <2>3, <2>5, <3>1, <3>3, LenProperties
      <4> QED
        BY <4>1
    <3> QED
      BY <1>1, <2>3, <3>1, <3>2, <3>3
  <2> HIDE DEF at
  <2>8. \A i \in DOMAIN w : w[i] # x
    BY <2>3, <2>6
  <2>9. \A i, j \in DOMAIN w : w[i] = w[j] => i = j
    BY <2>6, <2>7
  <2> QED
    BY <2>5, <2>6, <2>8, <2>9, <2>10 DEF w
<1> QED
  BY <1>2, <1>3

\* A row is put last.
LEMMA PutLast ==
  ASSUME NEW S, NEW seq \in Seq(S), NEW x \in S, \A n \in DOMAIN seq : seq[n] # x,
         \A m, n \in DOMAIN seq : seq[m] = seq[n] => m = n
  PROVE  LET w == Append(seq, x) IN
         /\ w \in Seq(S)
         /\ \A n \in DOMAIN w : w[n] = x \/ \E m \in DOMAIN seq : w[n] = seq[m]
         /\ \A m, n \in DOMAIN w : w[m] = w[n] => m = n
         /\ \E n \in DOMAIN w : w[n] = x
         /\ \A m \in DOMAIN seq : \E n \in DOMAIN w : w[n] = seq[m]
<1> DEFINE w == Append(seq, x)
           L == Len(seq)
<1>1. L \in Nat /\ DOMAIN seq = 1..L
  BY LenProperties
<1>2. w \in Seq(S) /\ DOMAIN w = 1..L + 1 /\ w[L + 1] = x /\ \A n \in 1..L : w[n] = seq[n]
  BY <1>1, AppendProperties, LenProperties
<1> HIDE DEF w
<1>3. \A n \in DOMAIN w : n = L + 1 \/ (n \in DOMAIN seq /\ w[n] = seq[n])
  BY <1>1, <1>2
<1>4. ASSUME NEW m \in DOMAIN w, NEW n \in DOMAIN w, w[m] = w[n] PROVE m = n
  <2>1. CASE m = L + 1 /\ n = L + 1
    BY <2>1
  <2>2. CASE m # L + 1 /\ n # L + 1
    BY <1>3, <1>4, <2>2
  <2>3. CASE m = L + 1 /\ n # L + 1
    BY <1>2, <1>3, <1>4, <2>3
  <2>4. CASE m # L + 1 /\ n = L + 1
    BY <1>2, <1>3, <1>4, <2>4
  <2> QED
    BY <2>1, <2>2, <2>3, <2>4
<1>5. L + 1 \in DOMAIN w /\ \A m \in DOMAIN seq : m \in DOMAIN w /\ w[m] = seq[m]
  BY <1>1, <1>2
<1> QED
  BY <1>2, <1>3, <1>4, <1>5 DEF w

\* The order of the rows, without one of them and with one put last.
LEMMA OthersOrder ==
  ASSUME Mem!MemoryInv, NEW i
  PROVE  /\ Mem!Others(i) \in Seq(Mem!Rows)
         /\ \A n \in DOMAIN Mem!Others(i) : Mem!Others(i)[n] # i /\ Mem!Active(Mem!Others(i)[n])
         /\ \A m, n \in DOMAIN Mem!Others(i) : Mem!Others(i)[m] = Mem!Others(i)[n] => m = n
         /\ \A j \in Mem!Rows : Mem!Active(j) /\ j # i => \E n \in DOMAIN Mem!Others(i) : Mem!Others(i)[n] = j
<1>1. part2 \in Seq(Mem!Rows) /\ \A m, n \in DOMAIN part2 : part2[m] = part2[n] => m = n
  BY MemoryTyped DEF Mem!MemoryInv
<1>2. /\ \A n \in DOMAIN part2 : Mem!Active(part2[n])
      /\ \A j \in Mem!Rows : Mem!Active(j) => \E n \in DOMAIN part2 : part2[n] = j
  BY DEF Mem!MemoryInv
<1> DEFINE w == Mem!Others(i)
<1>3. /\ w \in Seq(Mem!Rows)
      /\ \A n \in DOMAIN w : w[n] # i /\ \E m \in DOMAIN part2 : w[n] = part2[m]
      /\ \A m, n \in DOMAIN w : w[m] = w[n] => m = n
      /\ \A m \in DOMAIN part2 : part2[m] # i => \E n \in DOMAIN w : w[n] = part2[m]
  BY <1>1, OthersAre DEF Mem!Others
<1> HIDE DEF w
<1>4. \A n \in DOMAIN w : Mem!Active(w[n])
  BY <1>2, <1>3
<1>5. \A j \in Mem!Rows : Mem!Active(j) /\ j # i => \E n \in DOMAIN w : w[n] = j
  BY <1>2, <1>3
<1> QED
  BY <1>3, <1>4, <1>5 DEF w

\* A row that was touched is the newest, if it is active.
LEMMA TouchedOrder ==
  ASSUME Mem!MemoryInv, NEW i \in Mem!Rows
  PROVE  Orders(Mem!Touched(i), part1)
<1>1. CASE ~Mem!Active(i)
  BY <1>1, MemoryTyped DEF Mem!Touched, Orders, Mem!MemoryInv, Mem!Active, Mem!Rows
<1>2. CASE Mem!Active(i)
  <2> DEFINE o == Mem!Others(i)
             w == Append(o, i)
  <2>1. /\ o \in Seq(Mem!Rows) /\ \A n \in DOMAIN o : o[n] # i /\ Mem!Active(o[n])
        /\ \A m, n \in DOMAIN o : o[m] = o[n] => m = n
        /\ \A j \in Mem!Rows : Mem!Active(j) /\ j # i => \E n \in DOMAIN o : o[n] = j
    BY OthersOrder
  <2> HIDE DEF o
  <2>2. /\ w \in Seq(Mem!Rows)
        /\ \A n \in DOMAIN w : w[n] = i \/ \E m \in DOMAIN o : w[n] = o[m]
        /\ \A m, n \in DOMAIN w : w[m] = w[n] => m = n
        /\ \E n \in DOMAIN w : w[n] = i
        /\ \A m \in DOMAIN o : \E n \in DOMAIN w : w[n] = o[m]
    BY <2>1, PutLast
  <2>3. Mem!Touched(i) = w
    BY <1>2 DEF Mem!Touched, o
  <2> HIDE DEF w
  <2>4. \A n \in DOMAIN w : Mem!Active(w[n])
    BY <1>2, <2>1, <2>2
  <2>5. \A j \in Mem!Rows : Mem!Active(j) => \E n \in DOMAIN w : w[n] = j
    BY <2>1, <2>2
  <2> QED
    BY <2>2, <2>3, <2>4, <2>5, MemoryTyped DEF Orders, Mem!Active
<1> QED
  BY <1>1, <1>2

\* A set of numbers up to some bound that is not empty has a greatest element.
LEMMA GreatestOf ==
  ASSUME NEW b \in Nat, NEW T, T \subseteq 1..b, T # {}
  PROVE  \E n \in T : \A m \in T : n >= m
<1> DEFINE D == {d \in Nat : b - d \in T}
<1>1. ASSUME NEW t \in T PROVE b - t \in D
  <2>1. t \in 1..b
    OBVIOUS
  <2>2. b - t \in Nat /\ b - (b - t) = t
    BY <2>1
  <2> QED
    BY <2>2
<1>2. D \subseteq Nat /\ D # {}
  <2>1. D \subseteq Nat
    OBVIOUS
  <2>2. PICK t \in T : TRUE
    OBVIOUS
  <2> HIDE DEF D
  <2> QED
    BY <1>1, <2>1, <2>2
<1>3. PICK d \in D : \A e \in D : d <= e
  <2> HIDE DEF D
  <2> QED
    BY <1>2, LeastOf
<1>4. d \in Nat /\ b - d \in T
  OBVIOUS
<1>5. ASSUME NEW m \in T PROVE b - d >= m
  <2>1. m \in 1..b /\ d <= b - m
    <3> HIDE DEF D
    <3> QED
      BY <1>1, <1>3
  <2> QED
    BY <1>4, <2>1
<1> QED
  BY <1>4, <1>5

\* What a new row is to supersede is active.
LEMMA NewestIsActive ==
  ASSUME Mem!MemoryInv, NEW key
  PROVE  LET old == Mem!NewestActive(key) IN
         old = 0 \/ (old \in Mem!Rows /\ Mem!Active(old) /\ part1[old].key = key)
<1> DEFINE about == {n \in DOMAIN part2 : part1[part2[n]].key = key}
<1>1. CASE key = NoPreference \/ about = {}
  BY <1>1 DEF Mem!NewestActive
<1>2. CASE ~(key = NoPreference \/ about = {})
  <2>1. Mem!NewestActive(key) = part2[Mem!Max(about)]
    BY <1>2 DEF Mem!NewestActive
  <2>2. about \subseteq 1..Len(part2) /\ about # {} /\ Len(part2) \in Nat
    BY <1>2, MemoryTyped
  <2>3. \A n \in about : n \in DOMAIN part2 /\ part1[part2[n]].key = key
    OBVIOUS
  <2> HIDE DEF about
  <2>4. Mem!Max(about) \in about
    BY <2>2, GreatestOf DEF Mem!Max
  <2> QED
    BY <2>1, <2>3, <2>4, MemoryTyped DEF Mem!MemoryInv
<1> QED
  BY <1>1, <1>2

\* Of a preference that was only ever corrected it is all there is.
LEMMA NewestIsAll ==
  ASSUME Mem!MemoryInv, NEW k \in Preference, Mem!OnlyCorrected(k),
         NEW i \in Mem!Rows, Mem!Active(i), part1[i].key = k
  PROVE  Mem!NewestActive(k) = i
<1> DEFINE about == {n \in DOMAIN part2 : part1[part2[n]].key = k}
           old == Mem!NewestActive(k)
<1>1. k # NoPreference
  BY ServicesAssumption DEF Mem!MemoryAssumption
<1>2. about # {}
  <2>1. PICK n \in DOMAIN part2 : part2[n] = i
    BY DEF Mem!MemoryInv
  <2> QED
    BY <2>1
<1>3. old # 0
  <2>1. old = part2[Mem!Max(about)]
    BY <1>1, <1>2 DEF Mem!NewestActive
  <2>2. about \subseteq 1..Len(part2) /\ Len(part2) \in Nat
    BY MemoryTyped
  <2>3. \A n \in about : n \in DOMAIN part2
    OBVIOUS
  <2> HIDE DEF about
  <2>4. Mem!Max(about) \in about
    BY <1>2, <2>2, GreatestOf DEF Mem!Max
  <2>5. part2[Mem!Max(about)] \in Mem!Rows
    BY <2>3, <2>4, MemoryTyped
  <2> QED
    BY <2>1, <2>5, MemoryTyped
<1> HIDE DEF about, old
<1>4. old \in Mem!Rows /\ Mem!Active(old) /\ part1[old].key = k
  BY <1>3, NewestIsActive DEF old
<1> QED
  BY <1>1, <1>4 DEF Mem!MemoryInv, Mem!CorrectedIsOne, old

\* Whoever replaces what there is of a preference holds its lock.
LEMMA ReplacesUnderLock ==
  ASSUME Mem!MemoryInv, NEW t \in Thread, NEW k \in Preference, Mem!Replaces(t, k)
  PROVE  part3[t].lock = <<k>>
<1>1. CASE part3[t].op = "CREATE"
  BY <1>1 DEF Mem!MemoryInv, Mem!Replaces
<1>2. CASE part3[t].op # "CREATE"
  <2>1. Mem!Stating(t) /\ part3[t].cand.key = k
    BY <1>2 DEF Mem!Replaces, Mem!Holding, Mem!Stating
  <2>2. part3[t].lock = Mem!LockOf(part3[t].cand)
    BY <2>1 DEF Mem!MemoryInv
  <2> QED
    BY <2>1, <2>2, ServicesAssumption DEF Mem!LockOf, Mem!MemoryAssumption
<1> QED
  BY <1>1, <1>2

\* What the transactions may rely on: part of the invariant, of the rows and
\* requests alone.
HoldersInv ==
    \A t \in Thread : Mem!Holding(t) /\ part3[t].old # 0 =>
        /\ part3[t].old \in Mem!Rows /\ Mem!Active(part3[t].old)
        /\ \A u \in Thread \ {t} : Mem!Holding(u) => part3[u].old # part3[t].old
StatersInv ==
    \A t \in Thread : Mem!Stating(t) =>
        /\ part3[t].lock = Mem!LockOf(part3[t].cand) /\ part3[t].same \subseteq Mem!Rows
        /\ part3[t].same = {} => Mem!ExactActive(part3[t].cand) = {}
        /\ \A u \in Thread \ {t} : Mem!Stating(u) => part3[u].lock # part3[t].lock

CreatorsInv ==
    \A t \in Thread, k \in Preference :
        part3[t].op = "CREATE" /\ part3[t].key = k => part3[t].lock = <<k>>

\* The invariant by its parts.
LEMMA MemoryParts ==
  Mem!MemoryInv <=>
      /\ part1 \in Seq(Mem!Row) /\ Orders(part2, part1)
      /\ part3 \in [Thread -> {Mem!NoRequest} \cup Mem!Asked \cup Mem!Placed \cup Mem!Creating]
      /\ HoldersInv /\ StatersInv /\ CreatorsInv
      /\ Mem!LocksAreHeldOnce /\ Mem!OldIsAll /\ Mem!CorrectedIsOne
      /\ Mem!StatedOnce /\ Mem!SupersessionIsAChain
<1>1. Mem!TypeOK /\ (\A n \in DOMAIN part2 : Mem!Active(part2[n]))
         /\ (\A m, n \in DOMAIN part2 : part2[m] = part2[n] => m = n)
         /\ (\A i \in Mem!Rows : Mem!Active(i) => \E n \in DOMAIN part2 : part2[n] = i)
      <=> /\ part1 \in Seq(Mem!Row) /\ Orders(part2, part1)
          /\ part3 \in [Thread -> {Mem!NoRequest} \cup Mem!Asked \cup Mem!Placed \cup Mem!Creating]
  BY DEF Mem!TypeOK, Orders, Mem!Active, Mem!Rows
<1> QED
  BY <1>1 DEF Mem!MemoryInv, HoldersInv, StatersInv, CreatorsInv

\* It holds after a step when they do.
LEMMA MemoryNext ==
  ASSUME part1' \in Seq(Mem!Row), Orders(part2, part1)',
         part3' \in [Thread -> {Mem!NoRequest} \cup Mem!Asked \cup Mem!Placed \cup Mem!Creating],
         HoldersInv', StatersInv', CreatorsInv', Mem!LocksAreHeldOnce', Mem!OldIsAll',
         Mem!CorrectedIsOne', Mem!StatedOnce', Mem!SupersessionIsAChain'
  PROVE  Mem!MemoryInv'
<1>1. Mem!TypeOK' /\ (\A n \in DOMAIN part2' : Mem!Active(part2[n])')
      /\ (\A m, n \in DOMAIN part2' : part2'[m] = part2'[n] => m = n)
      /\ (\A i \in Mem!Rows' : Mem!Active(i)' => \E n \in DOMAIN part2' : part2'[n] = i)
  BY DEF Mem!TypeOK, Orders, Mem!Active, Mem!Rows
<1> QED
  BY <1>1 DEF Mem!MemoryInv, HoldersInv, StatersInv, CreatorsInv

\* No transaction is doing anything it was not doing, but for one: it ends, or
\* looks for what it is going to write; the rows stay.
LEMMA MemoryMoves ==
  ASSUME Mem!MemoryInv, NEW t \in Thread,
         NEW r \in {Mem!NoRequest} \cup Mem!Asked \cup Mem!Placed \cup Mem!Creating,
         part3' = [part3 EXCEPT ![t] = r], UNCHANGED part1, Orders(part2, part1)',
         r.op \in {"PERSIST", "CREATE"} /\ r.locked /\ r.old # 0 =>
            /\ r.old \in Mem!Rows /\ Mem!Active(r.old)
            /\ \A u \in Thread : Mem!Holding(u) => part3[u].old # r.old,
         r.op = "PERSIST" /\ r.locked =>
            /\ r.lock = Mem!LockOf(r.cand) /\ r.same \subseteq Mem!Rows
            /\ r.same = {} => Mem!ExactActive(r.cand) = {}
            /\ \A u \in Thread : Mem!Stating(u) => part3[u].lock # r.lock,
         ASSUME NEW k \in Preference PROVE r.op = "CREATE" /\ r.key = k => r.lock = <<k>>,
         ASSUME NEW k \in Preference, r.op \in {"PERSIST", "CREATE"}, r.locked, r.lock = <<k>>
         PROVE  \A u \in Thread : Mem!Holding(u) => part3[u].lock # <<k>>,
         ASSUME NEW k \in Preference, r.op \in {"PERSIST", "CREATE"}, r.locked,
                IF r.op = "CREATE" THEN r.key = k
                ELSE r.same = {} /\ r.cand.key = k /\ r.cand.correction,
                Mem!OnlyCorrected(k), NEW i \in Mem!Rows, Mem!Active(i), part1[i].key = k
         PROVE  r.old = i
  PROVE  Mem!MemoryInv'
<1>0. HoldersInv /\ StatersInv /\ CreatorsInv /\ Mem!LocksAreHeldOnce /\ Mem!OldIsAll
  BY MemoryParts
<1>1. /\ part3' \in [Thread -> {Mem!NoRequest} \cup Mem!Asked \cup Mem!Placed \cup Mem!Creating]
      /\ part3'[t] = r /\ \A u \in Thread \ {t} : part3'[u] = part3[u]
  BY MemoryTyped
<1>2. /\ \A u \in Thread \ {t} : /\ Mem!Holding(u)' <=> Mem!Holding(u)
                                 /\ Mem!Stating(u)' <=> Mem!Stating(u)
      /\ Mem!Holding(t)' <=> r.op \in {"PERSIST", "CREATE"} /\ r.locked
      /\ Mem!Stating(t)' <=> r.op = "PERSIST" /\ r.locked
  BY <1>1 DEF Mem!Holding, Mem!Stating
<1>3. HoldersInv'
  <2> SUFFICES ASSUME NEW u \in Thread, Mem!Holding(u)', part3'[u].old # 0
               PROVE  /\ part3'[u].old \in Mem!Rows /\ Mem!Active(part3'[u].old)
                      /\ \A v \in Thread \ {u} : Mem!Holding(v)' => part3'[v].old # part3'[u].old
    BY DEF HoldersInv, Mem!Rows, Mem!Active
  <2>1. CASE u = t
    BY <1>1, <1>2, <2>1
  <2>2. CASE u # t
    <3>1. /\ Mem!Holding(u) /\ part3'[u] = part3[u] /\ part3[u].old # 0
          /\ part3[u].old \in Mem!Rows /\ Mem!Active(part3[u].old)
          /\ \A v \in Thread \ {u} : Mem!Holding(v) => part3[v].old # part3[u].old
      BY <1>0, <1>1, <1>2, <2>2 DEF HoldersInv
    <3>2. Mem!Holding(t)' => r.old # part3[u].old
      BY <1>2, <3>1
    <3> QED
      BY <1>1, <1>2, <2>2, <3>1, <3>2
  <2> QED
    BY <2>1, <2>2
<1>4. StatersInv'
  <2>1. \A c \in Candidate : Mem!ExactActive(c)' = Mem!ExactActive(c)
    BY DEF Mem!ExactActive, Mem!Active, Mem!Rows, Mem!Id
  <2> SUFFICES ASSUME NEW u \in Thread, Mem!Stating(u)'
               PROVE  /\ part3'[u].lock = Mem!LockOf(part3'[u].cand)
                      /\ part3'[u].same \subseteq Mem!Rows
                      /\ part3'[u].same = {} => Mem!ExactActive(part3'[u].cand) = {}
                      /\ \A v \in Thread \ {u} : Mem!Stating(v)' => part3'[v].lock # part3'[u].lock
    BY DEF StatersInv, Mem!Rows, Mem!LockOf, Mem!Id, Mem!ExactActive, Mem!Active
  <2>2. CASE u = t
    BY <1>1, <1>2, <2>2
  <2>3. CASE u # t
    BY <1>0, <1>1, <1>2, <2>3 DEF StatersInv
  <2> QED
    BY <2>2, <2>3
<1>5. Mem!StatedOnce' /\ Mem!SupersessionIsAChain' /\ Mem!CorrectedIsOne'
  BY MemoryParts DEF Mem!StatedOnce, Mem!SupersessionIsAChain, Mem!CorrectedIsOne,
                     Mem!OnlyCorrected, Mem!Active, Mem!Rows
<1>6. CreatorsInv'
  BY <1>0, <1>1 DEF CreatorsInv
<1>7. Mem!LocksAreHeldOnce'
  <2> SUFFICES ASSUME NEW u \in Thread, NEW v \in Thread, NEW k \in Preference,
                      Mem!Holding(u)', Mem!Holding(v)', part3'[u].lock = <<k>>, part3'[v].lock = <<k>>
               PROVE  u = v
    BY DEF Mem!LocksAreHeldOnce
  <2>1. CASE u = t /\ v # t
    BY <1>1, <1>2, <2>1
  <2>2. CASE u # t /\ v = t
    BY <1>1, <1>2, <2>2
  <2>3. CASE u # t /\ v # t
    BY <1>0, <1>1, <1>2, <2>3 DEF Mem!LocksAreHeldOnce
  <2> QED
    BY <2>1, <2>2, <2>3
<1>8. Mem!OldIsAll'
  <2> SUFFICES ASSUME NEW u \in Thread, NEW k \in Preference, Mem!Replaces(u, k)',
                      Mem!OnlyCorrected(k), NEW i \in Mem!Rows, Mem!Active(i), part1[i].key = k
               PROVE  part3'[u].old = i
    BY DEF Mem!OldIsAll, Mem!OnlyCorrected, Mem!Active, Mem!Rows
  <2>1. CASE u = t
    BY <1>1, <1>2, <2>1 DEF Mem!Replaces
  <2>2. CASE u # t
    <3>1. Mem!Replaces(u, k)
      BY <1>1, <1>2, <2>2 DEF Mem!Replaces
    <3> QED
      BY <1>0, <1>1, <2>2, <3>1 DEF Mem!OldIsAll
  <2> QED
    BY <2>1, <2>2
<1> QED
  BY <1>1, <1>3, <1>4, <1>5, <1>6, <1>7, <1>8, MemoryTyped, MemoryNext

\* A row is changed by its user, or expires: it is in use no more than before.
LEMMA MemoryRowInv ==
  ASSUME Mem!MemoryInv, NEW i \in Mem!Rows, NEW new \in Mem!Row,
         part1' = [part1 EXCEPT ![i] = new], UNCHANGED part3, Orders(part2, part1)',
         new.candidate = part1[i].candidate, new.supersedes = part1[i].supersedes,
         new.confirmed = part1[i].confirmed, new.key = part1[i].key,
         new.corrects = part1[i].corrects,
         \/ new.life = part1[i].life
         \/ new.life = "DELETED" /\ \A t \in Thread : Mem!Holding(t) => part3[t].old # i
  PROVE  Mem!MemoryInv'
<1>0. /\ HoldersInv /\ StatersInv /\ Mem!StatedOnce /\ Mem!SupersessionIsAChain
      /\ CreatorsInv /\ Mem!LocksAreHeldOnce /\ Mem!OldIsAll /\ Mem!CorrectedIsOne
  BY MemoryParts
<1>1. /\ part1' \in Seq(Mem!Row) /\ Len(part1') = Len(part1) /\ part1'[i] = new
      /\ \A j \in Mem!Rows : j # i => part1'[j] = part1[j]
  <2>1. part1' \in Seq(Mem!Row) /\ Len(part1') = Len(part1)
    BY MemoryTyped, ExceptSeq
  <2> QED
    BY <2>1, MemoryTyped
<1>2. Mem!Rows' = Mem!Rows
  BY <1>1 DEF Mem!Rows
<1>3. \A j \in Mem!Rows : /\ part1'[j].candidate = part1[j].candidate
                          /\ part1'[j].supersedes = part1[j].supersedes
                          /\ part1'[j].confirmed = part1[j].confirmed
                          /\ part1'[j].life \in {part1[j].life, "DELETED"}
                          /\ j # i => part1'[j].life = part1[j].life
                          /\ part1'[j].key = part1[j].key
                          /\ part1'[j].corrects = part1[j].corrects
  BY <1>1
<1>4. \A j \in Mem!Rows : Mem!Active(j)' => Mem!Active(j)
  BY <1>3 DEF Mem!Active
<1>5. HoldersInv'
  <2> SUFFICES ASSUME NEW t \in Thread, Mem!Holding(t), part3[t].old # 0
               PROVE  /\ part3[t].old \in Mem!Rows' /\ Mem!Active(part3[t].old)'
                      /\ \A u \in Thread \ {t} : Mem!Holding(u) => part3[u].old # part3[t].old
    BY DEF HoldersInv, Mem!Holding, Mem!Active
  <2>1. /\ part3[t].old \in Mem!Rows /\ Mem!Active(part3[t].old)
        /\ \A u \in Thread \ {t} : Mem!Holding(u) => part3[u].old # part3[t].old
    BY <1>0 DEF HoldersInv
  <2>2. Mem!Active(part3[t].old)'
    <3>1. CASE part3[t].old # i
      BY <1>3, <2>1, <3>1 DEF Mem!Active
    <3>2. CASE part3[t].old = i
      BY <1>1, <2>1, <3>2 DEF Mem!Active
    <3> QED
      BY <3>1, <3>2
  <2> QED
    BY <1>2, <2>1, <2>2
<1>6. \A c : Mem!ExactActive(c)' \subseteq Mem!ExactActive(c)
  BY <1>2, <1>3, <1>4 DEF Mem!ExactActive, Mem!Id
<1>7. StatersInv'
  <2> SUFFICES ASSUME NEW t \in Thread, Mem!Stating(t)
               PROVE  /\ part3[t].lock = Mem!LockOf(part3[t].cand) /\ part3[t].same \subseteq Mem!Rows'
                      /\ part3[t].same = {} => Mem!ExactActive(part3[t].cand)' = {}
                      /\ \A u \in Thread \ {t} : Mem!Stating(u) => part3[u].lock # part3[t].lock
    BY DEF StatersInv, Mem!Stating, Mem!LockOf, Mem!Id, Mem!ExactActive
  <2>1. /\ part3[t].lock = Mem!LockOf(part3[t].cand) /\ part3[t].same \subseteq Mem!Rows
        /\ part3[t].same = {} => Mem!ExactActive(part3[t].cand) = {}
        /\ \A u \in Thread \ {t} : Mem!Stating(u) => part3[u].lock # part3[t].lock
    BY <1>0 DEF StatersInv
  <2>2. Mem!ExactActive(part3[t].cand)' \subseteq Mem!ExactActive(part3[t].cand)
    BY <1>2, <1>3, <1>4 DEF Mem!ExactActive, Mem!Id
  <2> QED
    BY <1>2, <2>1, <2>2
<1>8. Mem!StatedOnce'
  BY <1>0, <1>2, <1>3, <1>4 DEF Mem!StatedOnce
<1>9. Mem!SupersessionIsAChain'
  <2>1. ASSUME NEW j \in Mem!Rows, part1'[j].life = "SUPERSEDED"
        PROVE  Mem!Cardinality({k \in Mem!Rows' : part1'[k].supersedes = j}) = 1
    <3>1. part1[j].life = "SUPERSEDED"
      BY <1>3, <2>1
    <3>2. {k \in Mem!Rows' : part1'[k].supersedes = j} = {k \in Mem!Rows : part1[k].supersedes = j}
      BY <1>2, <1>3
    <3>3. Mem!Cardinality({k \in Mem!Rows : part1[k].supersedes = j}) = 1
      BY <1>0, <3>1 DEF Mem!SupersessionIsAChain
    <3> QED
      BY <3>2, <3>3
  <2>2. ASSUME NEW j \in Mem!Rows, NEW k, k = part1'[j].supersedes, k # 0
        PROVE  /\ k < j /\ part1'[k].life \in {"SUPERSEDED", "DELETED"}
               /\ part1'[k].confirmed => part1'[j].confirmed
    <3>1. k = part1[j].supersedes /\ k \in Nat /\ j \in 1..Len(part1) /\ Len(part1) \in Nat
      BY <1>3, <2>2, MemoryTyped DEF Mem!Row
    <3>2. /\ k < j /\ part1[k].life \in {"SUPERSEDED", "DELETED"}
          /\ part1[k].confirmed => part1[j].confirmed
      BY <1>0, <2>2, <3>1 DEF Mem!SupersessionIsAChain
    <3>3. k \in 1..Len(part1)
      BY <2>2, <3>1, <3>2
    <3>4. k \in Mem!Rows
      BY <3>3 DEF Mem!Rows
    <3> QED
      BY <1>3, <3>2, <3>4
  <2> QED
    BY <1>2, <2>1, <2>2 DEF Mem!SupersessionIsAChain
<1>10. CreatorsInv' /\ Mem!LocksAreHeldOnce'
  BY <1>0 DEF CreatorsInv, Mem!LocksAreHeldOnce, Mem!Holding
<1>11. \A k \in Preference : Mem!OnlyCorrected(k)' => Mem!OnlyCorrected(k)
  BY <1>2, <1>3 DEF Mem!OnlyCorrected
<1>12. Mem!OldIsAll'
  <2> SUFFICES ASSUME NEW t \in Thread, NEW k \in Preference, Mem!Replaces(t, k)',
                      Mem!OnlyCorrected(k)', NEW j \in Mem!Rows', Mem!Active(j)', part1'[j].key = k
               PROVE  part3'[t].old = j
    BY DEF Mem!OldIsAll
  <2>1. Mem!Replaces(t, k)
    BY DEF Mem!Replaces, Mem!Holding
  <2>2. j \in Mem!Rows /\ Mem!Active(j) /\ part1[j].key = k /\ Mem!OnlyCorrected(k)
    BY <1>2, <1>3, <1>4, <1>11
  <2> QED
    BY <1>0, <2>1, <2>2 DEF Mem!OldIsAll
<1>13. Mem!CorrectedIsOne'
  <2> SUFFICES ASSUME NEW j \in Mem!Rows', NEW k \in Mem!Rows', Mem!Active(j)', Mem!Active(k)',
                      part1'[j].key = part1'[k].key, part1'[j].key # NoPreference,
                      Mem!OnlyCorrected(part1[j].key)'
               PROVE  j = k
    BY DEF Mem!CorrectedIsOne
  <2>1. /\ j \in Mem!Rows /\ k \in Mem!Rows /\ Mem!Active(j) /\ Mem!Active(k)
        /\ part1[j].key = part1[k].key /\ part1[j].key # NoPreference
    BY <1>2, <1>3, <1>4
  <2>2. Mem!OnlyCorrected(part1[j].key)
    BY <1>2, <1>3, <2>1 DEF Mem!OnlyCorrected
  <2> QED
    BY <1>0, <2>1, <2>2 DEF Mem!CorrectedIsOne
<1> QED
  BY <1>1, <1>5, <1>7, <1>8, <1>9, <1>10, <1>12, <1>13, MemoryTyped, MemoryNext

\* A sequence over a set is one over any larger set.
LEMMA SeqOfMore == ASSUME NEW S, NEW T, S \subseteq T, NEW seq \in Seq(S) PROVE seq \in Seq(T)
<1>1. Len(seq) \in Nat /\ DOMAIN seq = 1..Len(seq) /\ seq \in [1..Len(seq) -> S]
  BY LenProperties
<1>2. seq \in [1..Len(seq) -> T]
  BY <1>1
<1> QED
  BY <1>1, <1>2, SeqDef

\* A transaction adds its row, which takes the place of the one it has locked,
\* of none, or is set aside.
LEMMA MemoryAddInv ==
  ASSUME Mem!MemoryInv, NEW t \in Thread, Mem!Holding(t), NEW old \in {0, part3[t].old},
         NEW new \in Mem!Row, new.supersedes = old, new.life \in {"ACTIVE", "CONFLICTED"},
         part1' = Append(Mem!Superseded(old), new),
         part2' = IF new.life = "ACTIVE" THEN Mem!WithNew(old) ELSE part2,
         part3' = [part3 EXCEPT ![t] = Mem!NoRequest],
         new.life = "CONFLICTED" => old = 0,
         old # 0 /\ part1[old].confirmed => new.confirmed,
         new.life = "ACTIVE" /\ new.candidate # Mem!NoCandidate =>
            /\ \A i \in Mem!Rows : Mem!Active(i) => part1[i].candidate # new.candidate
            /\ \A u \in Thread \ {t} :
                  Mem!Stating(u) => Mem!Id(part3[u].cand) # new.candidate,
         new.life = "ACTIVE" /\ new.key \in Preference => part3[t].lock = <<new.key>>,
         new.life = "ACTIVE" /\ new.key \in Preference /\ new.corrects =>
            Mem!Replaces(t, new.key) /\ old = part3[t].old,
         \A c \in Candidate : Mem!Id(c) # Mem!NoCandidate
  PROVE  Mem!MemoryInv'
<1> DEFINE n == Len(part1) + 1
           mid == Mem!Superseded(old)
<1>0. /\ HoldersInv /\ StatersInv /\ Mem!StatedOnce /\ Mem!SupersessionIsAChain
      /\ CreatorsInv /\ Mem!LocksAreHeldOnce /\ Mem!OldIsAll /\ Mem!CorrectedIsOne
  BY MemoryParts
<1>1. /\ part1 \in Seq(Mem!Row) /\ Len(part1) \in Nat /\ n \in Nat /\ n \notin Mem!Rows
      /\ DOMAIN part1 = Mem!Rows /\ Mem!Rows = 1..Len(part1)
  BY MemoryTyped
<1>2. old # 0 => /\ old \in Mem!Rows /\ Mem!Active(old) /\ old = part3[t].old
                 /\ \A u \in Thread \ {t} : Mem!Holding(u) => part3[u].old # old
  BY <1>0 DEF HoldersInv
<1>3. /\ mid \in Seq(Mem!Row) /\ Len(mid) = Len(part1)
      /\ \A i \in Mem!Rows : /\ mid[i].candidate = part1[i].candidate
                             /\ mid[i].supersedes = part1[i].supersedes
                             /\ mid[i].confirmed = part1[i].confirmed
                             /\ mid[i].key = part1[i].key
                             /\ mid[i].corrects = part1[i].corrects
                             /\ mid[i].life = IF i = old THEN "SUPERSEDED" ELSE part1[i].life
  <2>1. CASE old = 0
    <3>1. mid = part1 /\ \A i \in Mem!Rows : i # old
      BY <2>1, MemoryTyped DEF Mem!Superseded
    <3> QED
      BY <1>1, <3>1
  <2>2. CASE old # 0
    <3> DEFINE gone == [part1[old] EXCEPT !.life = "SUPERSEDED"]
    <3>1. part1[old] \in Mem!Row /\ old \in DOMAIN part1
      BY <1>1, <1>2, <2>2, MemoryTyped
    <3>2. /\ gone \in Mem!Row /\ gone.life = "SUPERSEDED" /\ gone.candidate = part1[old].candidate
          /\ gone.supersedes = part1[old].supersedes /\ gone.confirmed = part1[old].confirmed
          /\ gone.key = part1[old].key /\ gone.corrects = part1[old].corrects
      BY <3>1 DEF Mem!Row
    <3>3. mid = [part1 EXCEPT ![old] = gone]
      BY <2>2 DEF Mem!Superseded
    <3> HIDE DEF gone, mid
    <3>4. mid \in Seq(Mem!Row) /\ Len(mid) = Len(part1)
      BY <1>1, <3>1, <3>2, <3>3, ExceptSeq
    <3>5. mid[old] = gone /\ \A i \in Mem!Rows : i # old => mid[i] = part1[i]
      BY <1>1, <3>1, <3>3
    <3> QED
      BY <3>2, <3>4, <3>5
  <2> QED
    BY <2>1, <2>2
<1> HIDE DEF mid
<1>4. /\ part1' \in Seq(Mem!Row) /\ Len(part1') = n /\ part1'[n] = new
      /\ \A i \in Mem!Rows : part1'[i] = mid[i]
  <2>1. part1' = Append(mid, new)
    BY DEF mid
  <2>2. /\ part1' \in Seq(Mem!Row) /\ Len(part1') = Len(mid) + 1 /\ part1'[Len(mid) + 1] = new
        /\ \A i \in 1..Len(mid) : part1'[i] = mid[i]
    BY <1>3, <2>1, AppendProperties
  <2> QED
    BY <1>1, <1>3, <2>2
<1>5. /\ Mem!Rows' = 1..n /\ \A i \in Mem!Rows' : i # n => i \in Mem!Rows
      /\ Mem!Rows \subseteq Mem!Rows' /\ n \in Mem!Rows'
  BY <1>1, <1>4 DEF Mem!Rows
<1>6. \A i \in Mem!Rows : /\ part1'[i].candidate = part1[i].candidate
                          /\ part1'[i].supersedes = part1[i].supersedes
                          /\ part1'[i].confirmed = part1[i].confirmed
                          /\ part1'[i].key = part1[i].key
                          /\ part1'[i].corrects = part1[i].corrects
                          /\ part1'[i].life = IF i = old THEN "SUPERSEDED" ELSE part1[i].life
  <2> SUFFICES ASSUME NEW i \in Mem!Rows
               PROVE  /\ part1'[i].candidate = part1[i].candidate
                      /\ part1'[i].supersedes = part1[i].supersedes
                      /\ part1'[i].confirmed = part1[i].confirmed
                      /\ part1'[i].key = part1[i].key
                      /\ part1'[i].corrects = part1[i].corrects
                      /\ part1'[i].life = IF i = old THEN "SUPERSEDED" ELSE part1[i].life
    OBVIOUS
  <2>1. part1'[i] = mid[i]
    BY <1>4
  <2> QED
    BY <1>3, <2>1
<1> HIDE DEF n
<1>7. \A i \in Mem!Rows : Mem!Active(i)' <=> Mem!Active(i) /\ i # old
  BY <1>2, <1>6 DEF Mem!Active
<1>8. Mem!Rows \subseteq 1..n /\ 1..n = Mem!Rows'
  BY <1>5
<1>9. Orders(part2, part1)'
  <2>1. /\ Mem!Others(old) \in Seq(Mem!Rows)
        /\ \A k \in DOMAIN Mem!Others(old) :
              Mem!Others(old)[k] # old /\ Mem!Active(Mem!Others(old)[k])
        /\ \A k, m \in DOMAIN Mem!Others(old) :
              Mem!Others(old)[k] = Mem!Others(old)[m] => k = m
        /\ \A j \in Mem!Rows : Mem!Active(j) /\ j # old =>
              \E k \in DOMAIN Mem!Others(old) : Mem!Others(old)[k] = j
    BY OthersOrder
  <2> DEFINE o == Mem!Others(old)
             w == Append(o, n)
  <2> HIDE DEF o
  <2>2. /\ o \in Seq(1..n) /\ \A k \in DOMAIN o : o[k] \in Mem!Rows
        /\ \A k \in DOMAIN o : o[k] # old /\ Mem!Active(o[k])
        /\ \A k, m \in DOMAIN o : o[k] = o[m] => k = m
        /\ \A j \in Mem!Rows : Mem!Active(j) /\ j # old => \E k \in DOMAIN o : o[k] = j
    <3>1. o \in Seq(Mem!Rows)
      BY <2>1 DEF o
    <3>2. \A k \in DOMAIN o : o[k] \in Mem!Rows
      BY <3>1, LenProperties, ElementOfSeq
    <3>3. o \in Seq(1..n)
      BY <1>8, <3>1, SeqOfMore
    <3> QED
      BY <2>1, <3>2, <3>3 DEF o
  <2>3. CASE new.life = "ACTIVE"
    <3>1. part2' = w
      BY <2>3, <1>1, <1>3 DEF Mem!WithNew, o, n
    <3>2. /\ w \in Seq(1..n)
          /\ \A k \in DOMAIN w : w[k] = n \/ \E m \in DOMAIN o : w[k] = o[m]
          /\ \A k, m \in DOMAIN w : w[k] = w[m] => k = m
          /\ \E k \in DOMAIN w : w[k] = n
          /\ \A m \in DOMAIN o : \E k \in DOMAIN w : w[k] = o[m]
      <4>1. n \in 1..n /\ n \notin Mem!Rows
        BY <1>1, <1>5 DEF n
      <4>2. \A k \in DOMAIN o : o[k] # n
        BY <2>2, <4>1
      <4>3. o \in Seq(1..n) /\ \A k, m \in DOMAIN o : o[k] = o[m] => k = m
        BY <2>2
      <4> QED
        BY <4>1, <4>2, <4>3, PutLast
    <3> HIDE DEF w
    <3>3. ASSUME NEW k \in DOMAIN w PROVE part1'[w[k]].life = "ACTIVE"
      <4>1. CASE w[k] = n
        BY <1>4, <2>3, <4>1
      <4>2. CASE w[k] # n
        <5>1. PICK m \in DOMAIN o : w[k] = o[m]
          BY <3>2, <4>2
        <5>2. o[m] \in Mem!Rows /\ o[m] # old /\ part1[o[m]].life = "ACTIVE"
          BY <2>2 DEF Mem!Active
        <5> QED
          BY <1>6, <5>1, <5>2
      <4> QED
        BY <4>1, <4>2
    <3>4. ASSUME NEW j \in 1..n, part1'[j].life = "ACTIVE" PROVE \E k \in DOMAIN w : w[k] = j
      <4>1. CASE j = n
        BY <3>2, <4>1
      <4>2. CASE j # n
        <5>1. j \in Mem!Rows /\ Mem!Active(j) /\ j # old
          BY <1>5, <1>6, <3>4, <4>2 DEF Mem!Active
        <5> QED
          BY <2>2, <3>2, <5>1
      <4> QED
        BY <4>1, <4>2
    <3> QED
      BY <1>4, <3>1, <3>2, <3>3, <3>4 DEF Orders
  <2>4. CASE new.life = "CONFLICTED"
    <3>1. part2' = part2 /\ old = 0
      BY <2>4
    <3>2. Orders(part2, part1) /\ \A k \in DOMAIN part2 : part2[k] \in Mem!Rows /\ part2[k] # 0
      BY MemoryParts, MemoryTyped
    <3>3. \A k \in DOMAIN part2 : part1'[part2[k]].life = part1[part2[k]].life
      BY <1>6, <3>1, <3>2
    <3>4. part2 \in Seq(1..n)
      BY <1>1, <1>5, <3>2 DEF Orders
    <3>5. ASSUME NEW j \in 1..n, part1'[j].life = "ACTIVE" PROVE \E k \in DOMAIN part2 : part2[k] = j
      <4>1. j \in Mem!Rows /\ part1[j].life = "ACTIVE"
        BY <1>1, <1>4, <1>5, <1>6, <2>4, <3>1, <3>5
      <4> QED
        BY <1>1, <3>2, <4>1 DEF Orders
    <3>6. /\ \A k \in DOMAIN part2 : part1'[part2[k]].life = "ACTIVE"
          /\ \A k, m \in DOMAIN part2 : part2[k] = part2[m] => k = m
      BY <3>2, <3>3 DEF Orders
    <3> QED
      BY <1>4, <3>1, <3>4, <3>5, <3>6 DEF Orders
  <2> QED
    BY <2>3, <2>4
<1>10. /\ part3' \in [Thread -> {Mem!NoRequest} \cup Mem!Asked \cup Mem!Placed \cup Mem!Creating]
       /\ ~Mem!Holding(t)' /\ ~Mem!Stating(t)'
       /\ \A u \in Thread \ {t} : /\ part3'[u] = part3[u]
                                  /\ Mem!Holding(u)' <=> Mem!Holding(u)
                                  /\ Mem!Stating(u)' <=> Mem!Stating(u)
  BY MemoryTyped DEF Mem!NoRequest, Mem!Holding, Mem!Stating
<1>11. HoldersInv'
  <2> SUFFICES ASSUME NEW u \in Thread, Mem!Holding(u)', part3'[u].old # 0
               PROVE  /\ part3'[u].old \in Mem!Rows' /\ part1'[part3'[u].old].life = "ACTIVE"
                      /\ \A v \in Thread \ {u} : Mem!Holding(v)' => part3'[v].old # part3'[u].old
    BY DEF HoldersInv, Mem!Active
  <2>1. u # t /\ part3'[u] = part3[u] /\ Mem!Holding(u)
    BY <1>10
  <2>2. /\ part3[u].old \in Mem!Rows /\ Mem!Active(part3[u].old)
        /\ \A v \in Thread \ {u} : Mem!Holding(v) => part3[v].old # part3[u].old
    BY <1>0, <2>1 DEF HoldersInv
  <2>3. part3[u].old # old
    BY <1>2, <2>1
  <2>4. part1'[part3[u].old].life = "ACTIVE"
    BY <1>6, <2>2, <2>3 DEF Mem!Active
  <2>5. \A v \in Thread \ {u} : Mem!Holding(v)' => part3'[v].old # part3[u].old
    BY <1>10, <2>2
  <2> QED
    BY <1>5, <2>1, <2>2, <2>4, <2>5
<1>12. StatersInv'
  <2> SUFFICES ASSUME NEW u \in Thread, Mem!Stating(u)'
               PROVE  /\ part3'[u].lock = Mem!LockOf(part3'[u].cand)
                      /\ part3'[u].same \subseteq Mem!Rows'
                      /\ part3'[u].same = {} => Mem!ExactActive(part3[u].cand)' = {}
                      /\ \A v \in Thread \ {u} : Mem!Stating(v)' => part3'[v].lock # part3'[u].lock
    BY <1>10 DEF StatersInv, Mem!LockOf, Mem!Id, Mem!ExactActive
  <2>1. u # t /\ part3'[u] = part3[u] /\ Mem!Stating(u)
    BY <1>10
  <2>2. /\ part3[u].lock = Mem!LockOf(part3[u].cand) /\ part3[u].same \subseteq Mem!Rows
        /\ part3[u].same = {} => Mem!ExactActive(part3[u].cand) = {}
        /\ \A v \in Thread \ {u} : Mem!Stating(v) => part3[v].lock # part3[u].lock
    BY <1>0, <2>1 DEF StatersInv
  <2>3. ASSUME part3[u].same = {} PROVE Mem!ExactActive(part3[u].cand)' = {}
    <3> DEFINE c == Mem!Id(part3[u].cand)
    <3>1. \A i \in Mem!Rows : Mem!Active(i) => part1[i].candidate # c
      BY <2>2, <2>3 DEF Mem!ExactActive
    <3>2. part3[u].cand \in Candidate
      BY <2>1, PlacedOrCreating DEF Mem!Stating
    <3>3. new.life = "ACTIVE" => new.candidate # c
      BY <2>1, <3>2
    <3>4. Mem!ExactActive(part3[u].cand)'
             = {i \in Mem!Rows' : part1'[i].life = "ACTIVE" /\ part1'[i].candidate = c}
      BY <2>1 DEF Mem!ExactActive, Mem!Active, Mem!Id
    <3> HIDE DEF c
    <3>5. ASSUME NEW i \in Mem!Rows', part1'[i].life = "ACTIVE", part1'[i].candidate = c PROVE FALSE
      <4>1. CASE i = n
        BY <1>4, <3>3, <3>5, <4>1
      <4>2. CASE i # n
        <5>1. i \in Mem!Rows /\ part1[i].candidate = c /\ Mem!Active(i)
          BY <1>5, <1>6, <3>5, <4>2 DEF Mem!Active
        <5> QED
          BY <3>1, <5>1
      <4> QED
        BY <4>1, <4>2
    <3> QED
      BY <3>4, <3>5
  <2>4. \A v \in Thread \ {u} : Mem!Stating(v)' => part3'[v].lock # part3[u].lock
    BY <1>10, <2>2
  <2> QED
    BY <1>5, <2>1, <2>2, <2>3, <2>4
<1>13. Mem!StatedOnce'
  <2> SUFFICES ASSUME NEW i \in Mem!Rows', NEW j \in Mem!Rows',
                      part1'[i].life = "ACTIVE", part1'[j].life = "ACTIVE",
                      part1'[i].candidate = part1'[j].candidate,
                      part1'[i].candidate # Mem!NoCandidate
               PROVE  i = j
    BY DEF Mem!StatedOnce, Mem!Active
  <2>1. \A k \in Mem!Rows : part1'[k].life = "ACTIVE" =>
           Mem!Active(k) /\ part1'[k].candidate = part1[k].candidate
    BY <1>6 DEF Mem!Active
  <2>2. CASE i = n /\ j = n
    BY <2>2
  <2>3. CASE i = n /\ j # n
    BY <1>4, <1>5, <2>1, <2>3
  <2>4. CASE i # n /\ j = n
    BY <1>4, <1>5, <2>1, <2>4
  <2>5. CASE i # n /\ j # n
    <3>1. i \in Mem!Rows /\ j \in Mem!Rows
      BY <1>5, <2>5
    <3>2. /\ Mem!Active(i) /\ part1'[i].candidate = part1[i].candidate
          /\ Mem!Active(j) /\ part1'[j].candidate = part1[j].candidate
      BY <2>1, <3>1
    <3> QED
      BY <1>0, <3>1, <3>2 DEF Mem!StatedOnce
  <2> QED
    BY <2>2, <2>3, <2>4, <2>5
<1>14. Mem!SupersessionIsAChain'
  <2>1. ASSUME NEW i \in Mem!Rows', part1'[i].life = "SUPERSEDED"
        PROVE  Mem!Cardinality({j \in Mem!Rows' : part1'[j].supersedes = i}) = 1
    <3>1. i \in Mem!Rows /\ i # n
      BY <1>4, <1>5, <2>1
    <3>2. CASE i = old
      <4>1. old # 0 /\ Mem!Active(old)
        BY <1>1, <1>2, <3>1, <3>2
      <4>2. \A j \in Mem!Rows : part1[j].supersedes # old
        BY <1>0, <4>1 DEF Mem!SupersessionIsAChain, Mem!Active
      <4>3. {j \in Mem!Rows' : part1'[j].supersedes = i} = {n}
        BY <1>4, <1>5, <1>6, <3>2, <4>2
      <4>4. Cardinality({n}) = 1
        BY FS_Singleton
      <4> QED
        BY <4>3, <4>4, SameCardinality
    <3>3. CASE i # old
      <4>1. part1[i].life = "SUPERSEDED"
        BY <1>6, <2>1, <3>1, <3>3
      <4>2. {j \in Mem!Rows' : part1'[j].supersedes = i} = {j \in Mem!Rows : part1[j].supersedes = i}
        <5>1. part1'[n].supersedes # i /\ \A j \in Mem!Rows : part1'[j].supersedes = part1[j].supersedes
          BY <1>4, <1>6, <3>3
        <5> QED
          BY <1>5, <5>1
      <4>3. Mem!Cardinality({j \in Mem!Rows : part1[j].supersedes = i}) = 1
        BY <1>0, <3>1, <4>1 DEF Mem!SupersessionIsAChain
      <4> QED
        BY <4>2, <4>3
    <3> QED
      BY <3>2, <3>3
  <2>2. ASSUME NEW j \in Mem!Rows', NEW i, i = part1'[j].supersedes, i # 0
        PROVE  /\ i < j /\ part1'[i].life \in {"SUPERSEDED", "DELETED"}
               /\ part1'[i].confirmed => part1'[j].confirmed
    <3>1. CASE j = n
      <4>1. i = old /\ old \in Mem!Rows
        BY <1>2, <1>4, <2>2, <3>1
      <4>2. old < n
        BY <1>1, <4>1 DEF n
      <4> QED
        <5>1. part1'[i].life = "SUPERSEDED" /\ part1'[i].confirmed = part1[old].confirmed
          BY <1>6, <4>1
        <5>2. part1[old].confirmed => new.confirmed
          BY <2>2, <4>1
        <5>3. part1'[j] = new
          BY <1>4, <3>1
        <5>4. i < j
          BY <3>1, <4>1, <4>2
        <5>5. part1'[i].confirmed => part1'[j].confirmed
          BY <5>1, <5>2, <5>3
        <5> QED
          BY <5>1, <5>4, <5>5
    <3>2. CASE j # n
      <4>1. j \in Mem!Rows /\ i = part1[j].supersedes
        BY <1>5, <1>6, <2>2, <3>2
      <4>2. /\ i < j /\ part1[i].life \in {"SUPERSEDED", "DELETED"}
            /\ part1[i].confirmed => part1[j].confirmed
        BY <1>0, <2>2, <4>1 DEF Mem!SupersessionIsAChain
      <4>3. i \in Nat /\ j \in 1..Len(part1)
        BY <4>1, MemoryTyped DEF Mem!Row
      <4>4. i \in 1..Len(part1)
        <5>1. \A l \in Nat : \A a \in Nat : \A b \in 1..l : a # 0 /\ a < b => a \in 1..l
          OBVIOUS
        <5> QED
          BY <1>1, <2>2, <4>2, <4>3, <5>1
      <4>5. i \in Mem!Rows
        BY <1>1, <4>4
      <4> QED
        BY <1>6, <4>1, <4>2, <4>5
    <3> QED
      BY <3>1, <3>2
  <2> QED
    BY <2>1, <2>2 DEF Mem!SupersessionIsAChain
<1>15. CreatorsInv'
  <2> SUFFICES ASSUME NEW u \in Thread, NEW k \in Preference,
                      part3'[u].op = "CREATE", part3'[u].key = k
               PROVE  part3'[u].lock = <<k>>
    BY DEF CreatorsInv
  <2>1. u # t
    BY MemoryTyped DEF Mem!NoRequest
  <2> QED
    BY <1>0, <1>10, <2>1 DEF CreatorsInv
<1>16. Mem!LocksAreHeldOnce'
  <2> SUFFICES ASSUME NEW u \in Thread, NEW v \in Thread, NEW k \in Preference,
                      Mem!Holding(u)', Mem!Holding(v)', part3'[u].lock = <<k>>, part3'[v].lock = <<k>>
               PROVE  u = v
    BY DEF Mem!LocksAreHeldOnce
  <2> QED
    BY <1>0, <1>10 DEF Mem!LocksAreHeldOnce
<1>17. \A k : Mem!OnlyCorrected(k)' =>
          /\ Mem!OnlyCorrected(k)
          /\ new.key = k => new.corrects
  BY <1>4, <1>5, <1>6 DEF Mem!OnlyCorrected
<1>18. Mem!OldIsAll'
  <2> SUFFICES ASSUME NEW u \in Thread, NEW k \in Preference, Mem!Replaces(u, k)',
                      Mem!OnlyCorrected(k)', NEW j \in Mem!Rows', part1'[j].life = "ACTIVE",
                      part1'[j].key = k
               PROVE  part3'[u].old = j
    BY ZenonT(60) DEF Mem!OldIsAll, Mem!Active
  <2>1. /\ u # t /\ part3'[u] = part3[u] /\ Mem!Holding(u) /\ Mem!Replaces(u, k)
        /\ Mem!OnlyCorrected(k)
    BY <1>10, <1>17 DEF Mem!Replaces
  <2>2. CASE j = n
    <3>1. new.life = "ACTIVE" /\ new.key = k
      BY <1>4, <2>2
    <3>2. part3[t].lock = <<k>> /\ part3[u].lock = <<k>>
      BY <2>1, <3>1, ReplacesUnderLock
    <3> QED
      BY <1>0, <2>1, <3>2 DEF Mem!LocksAreHeldOnce
  <2>3. CASE j # n
    <3>1. j \in Mem!Rows /\ Mem!Active(j) /\ part1[j].key = k
      BY <1>5, <1>6, <2>3 DEF Mem!Active
    <3> QED
      BY <1>0, <2>1, <3>1 DEF Mem!OldIsAll
  <2> QED
    BY <2>2, <2>3
<1>19. Mem!CorrectedIsOne'
  <2> SUFFICES ASSUME NEW i \in Mem!Rows', NEW j \in Mem!Rows', NEW k,
                      part1'[i].life = "ACTIVE", part1'[j].life = "ACTIVE",
                      part1'[i].key = k, part1'[j].key = k, k # NoPreference,
                      Mem!OnlyCorrected(k)'
               PROVE  i = j
    BY DEF Mem!CorrectedIsOne, Mem!Active
  <2>1. \A x \in Mem!Rows' : x # n /\ part1'[x].life = "ACTIVE" =>
           x \in Mem!Rows /\ Mem!Active(x) /\ x # old /\ part1'[x].key = part1[x].key
    BY <1>5, <1>6 DEF Mem!Active
  <2>2. ASSUME NEW x \in Mem!Rows', x # n, part1'[x].life = "ACTIVE", part1'[x].key = k,
               new.life = "ACTIVE", new.key = k
        PROVE  FALSE
    <3>1. x \in Mem!Rows /\ Mem!Active(x) /\ x # old /\ part1[x].key = k
      BY <2>1, <2>2
    <3>2. k \in Preference
      BY <2>2 DEF Mem!Row
    <3>3. Mem!Replaces(t, k) /\ old = part3[t].old /\ Mem!OnlyCorrected(k)
      BY <1>17, <2>2, <3>2
    <3> QED
      BY <1>0, <3>1, <3>2, <3>3 DEF Mem!OldIsAll
  <2>3. CASE i = n /\ j # n
    BY <1>4, <2>2, <2>3
  <2>4. CASE i # n /\ j = n
    BY <1>4, <2>2, <2>4
  <2>5. CASE i # n /\ j # n
    <3>1. /\ i \in Mem!Rows /\ Mem!Active(i) /\ part1[i].key = k
          /\ j \in Mem!Rows /\ Mem!Active(j) /\ part1[j].key = k
      BY <2>1, <2>5
    <3>2. Mem!OnlyCorrected(k)
      BY <1>17
    <3> QED
      BY <1>0, <3>1, <3>2 DEF Mem!CorrectedIsOne
  <2> QED
    BY <2>3, <2>4, <2>5
<1> QED
  BY <1>4, <1>9, <1>10, <1>11, <1>12, <1>13, <1>14, <1>15, <1>16, <1>18, <1>19, MemoryNext

\* What the extractor proposes.
LEMMA CandidateTyped ==
  ASSUME NEW c \in Candidate
  PROVE  /\ c.content \in Content /\ c.key \in Preference \cup {NoPreference}
         /\ c.confirmed \in BOOLEAN /\ c.correction \in BOOLEAN /\ Mem!Expires(c) \in BOOLEAN
         /\ Mem!LockOf(c) \in Mem!Lock
         /\ Mem!Id(c) \in Content \X (Preference \cup {NoPreference})
         /\ Mem!Id(c) # Mem!NoCandidate
<1>1. /\ c.content \in Content /\ c.key \in Preference \cup {NoPreference}
      /\ {c.confirmed, c.correction, c.bounded} \subseteq BOOLEAN
  BY ServicesAssumption DEF Mem!MemoryAssumption
<1>2. Mem!Expires(c) \in BOOLEAN
  BY DEF Mem!Expires
<1>3. Mem!Id(c) \in Content \X (Preference \cup {NoPreference}) /\ Len(Mem!Id(c)) = 2
  BY <1>1 DEF Mem!Id
<1>4. Len(Mem!NoCandidate) = 1
  BY DEF Mem!NoCandidate
<1>5. Mem!LockOf(c) \in Mem!Lock
  BY <1>1, <1>3 DEF Mem!LockOf, Mem!Lock
<1> QED
  BY <1>1, <1>2, <1>3, <1>4, <1>5

\* Equal statements wait for the same lock.
LEMMA LocksOfEqual ==
  ASSUME NEW c, NEW d, Mem!Id(c) = Mem!Id(d) PROVE Mem!LockOf(c) = Mem!LockOf(d)
<1>1. c.content = d.content /\ c.key = d.key
  BY DEF Mem!Id
<1> QED
  BY <1>1 DEF Mem!LockOf, Mem!Id

\* A transaction begins, looks for what is there, or ends without a new row.
LEMMA MemoryRequestInv ==
  ASSUME Mem!MemoryInv, NEW t \in Thread,
         \/ \E s \in Source, c \in Candidate, b \in BOOLEAN : Mem!Persist(t, s, c, b)
         \/ Mem!PersistLock(t) \/ Mem!Merge(t) \/ Mem!Abort(t)
         \/ \E x \in Content, k \in Preference \cup {NoPreference}, b \in ApiExpiry :
               Mem!Create(t, x, k, b)
  PROVE  Mem!MemoryInv'
<1>0. Mem!NoRequest.op = "NONE"
  BY DEF Mem!NoRequest
<1>1. UNCHANGED <<part1, part2>> => Orders(part2, part1)'
  BY MemoryParts DEF Orders
<1>2. ASSUME NEW s \in Source, NEW c \in Candidate, NEW b \in BOOLEAN, Mem!Persist(t, s, c, b)
      PROVE  Mem!MemoryInv'
  <2> DEFINE r == [op |-> "PERSIST", source |-> s, cand |-> c, locked |-> FALSE]
  <2>1. r \in Mem!Asked /\ ~r.locked /\ r.op = "PERSIST"
    BY DEF Mem!Asked
  <2>2. part3' = [part3 EXCEPT ![t] = r] /\ UNCHANGED <<part1, part2>>
    BY <1>2 DEF Mem!Persist, Mem!Begin
  <2> HIDE DEF r
  <2> QED
    BY <1>1, <2>1, <2>2, MemoryMoves
<1>3. CASE Mem!PersistLock(t)
  <2> DEFINE c == part3[t].cand
             old == Mem!Conflict(c)
             same == Mem!ExactActive(c)
             r == [op |-> "PERSIST", source |-> part3[t].source, cand |-> c, locked |-> TRUE,
                   lock |-> Mem!LockOf(c), old |-> IF same = {} THEN old ELSE 0, same |-> same]
  <2>1. c \in Candidate /\ part3[t].source \in Source /\ Mem!LockOf(c) \in Mem!Lock
    BY <1>3, PlacedOrCreating, CandidateTyped DEF Mem!PersistLock
  <2>2. old = 0 \/ (old \in Mem!Rows /\ Mem!Active(old) /\ old \in Nat)
    BY NewestIsActive, MemoryTyped DEF Mem!Conflict
  <2>3. same \subseteq Mem!Rows /\ same \subseteq Nat
    BY MemoryTyped DEF Mem!ExactActive
  <2>4. /\ part3' = [part3 EXCEPT ![t] = r] /\ UNCHANGED <<part1, part2>>
        /\ Mem!LockFree(Mem!LockOf(c)) /\ (same = {} /\ old # 0 => Mem!RowFree(old))
    BY <1>3 DEF Mem!PersistLock, Mem!Begin
  <2>5. /\ \A u \in Thread : Mem!Stating(u) => part3[u].lock # Mem!LockOf(c)
        /\ same = {} /\ old # 0 => \A u \in Thread : Mem!Holding(u) => part3[u].old # old
        /\ \A u \in Thread : Mem!Holding(u) => part3[u].lock # Mem!LockOf(c)
    BY <2>4 DEF Mem!LockFree, Mem!RowFree, Mem!Stating, Mem!Holding
  <2>9. ASSUME NEW k \in Preference, c.key = k, c.correction, Mem!OnlyCorrected(k),
               NEW i \in Mem!Rows, Mem!Active(i), part1[i].key = k
        PROVE  old = i
    BY <2>9, NewestIsAll DEF Mem!Conflict
  <2> HIDE DEF old, same
  <2>6. /\ r \in Mem!Placed /\ r.cand = c /\ r.lock = Mem!LockOf(c) /\ r.same = same
        /\ r.old \in {0, old} /\ (r.old # 0 => r.old = old /\ same = {})
        /\ r.op = "PERSIST" /\ (same = {} => r.old = old)
    BY <2>1, <2>2, <2>3 DEF Mem!Placed
  <2> HIDE DEF r
  <2>7. r.old # 0 => /\ r.old \in Mem!Rows /\ Mem!Active(r.old)
                     /\ \A u \in Thread : Mem!Holding(u) => part3[u].old # r.old
    BY <2>2, <2>5, <2>6
  <2>8. /\ r.lock = Mem!LockOf(r.cand) /\ r.same \subseteq Mem!Rows
        /\ r.same = {} => Mem!ExactActive(r.cand) = {}
        /\ \A u \in Thread : Mem!Stating(u) => part3[u].lock # r.lock
    BY <2>3, <2>5, <2>6 DEF same
  <2>10. \A u \in Thread : Mem!Holding(u) => part3[u].lock # r.lock
    BY <2>5, <2>6
  <2>11. ASSUME NEW k \in Preference, r.same = {}, r.cand.key = k, r.cand.correction,
                Mem!OnlyCorrected(k), NEW i \in Mem!Rows, Mem!Active(i), part1[i].key = k
         PROVE  r.old = i
    BY <2>6, <2>9, <2>11
  <2> QED
    BY <1>1, <2>4, <2>6, <2>7, <2>8, <2>10, <2>11, MemoryMoves
<1>4. CASE Mem!Merge(t)
  <2>1. part3[t].same \subseteq Mem!Rows /\ part3[t].same # {}
    BY <1>4, MemoryParts DEF Mem!Merge, Mem!Stating, StatersInv
  <2> DEFINE i == CHOOSE i \in part3[t].same : TRUE
  <2>2. i \in Mem!Rows
    BY <2>1
  <2>3. part2' = Mem!Touched(i) /\ part1' = part1 /\ part3' = [part3 EXCEPT ![t] = Mem!NoRequest]
    BY <1>4 DEF Mem!Merge, Mem!End
  <2> HIDE DEF i
  <2>4. Orders(part2, part1)'
    BY <2>2, <2>3, TouchedOrder DEF Orders
  <2> QED
    BY <1>0, <2>3, <2>4, MemoryMoves
<1>5. CASE Mem!Abort(t)
  BY <1>0, <1>1, <1>5, MemoryMoves DEF Mem!Abort, Mem!End
<1>6. ASSUME NEW x \in Content, NEW k \in Preference \cup {NoPreference}, NEW b \in ApiExpiry,
             Mem!Create(t, x, k, b)
      PROVE  Mem!MemoryInv'
  <2> DEFINE old == Mem!NewestActive(k)
             lock == IF k = NoPreference THEN <<"NONE", t>> ELSE <<k>>
             r == [op |-> "CREATE", content |-> x, key |-> k, expires |-> b, locked |-> TRUE,
                   lock |-> lock, old |-> old]
  <2>1. old = 0 \/ (old \in Mem!Rows /\ Mem!Active(old) /\ old \in Nat)
    BY NewestIsActive, MemoryTyped
  <2>2. lock \in Mem!Lock /\ b \in BOOLEAN
    BY ServicesAssumption DEF Mem!Lock, Mem!MemoryAssumption
  <2>3. /\ part3' = [part3 EXCEPT ![t] = r] /\ UNCHANGED <<part1, part2>>
        /\ old # 0 => Mem!RowFree(old)
        /\ k # NoPreference => Mem!LockFree(<<k>>)
    BY <1>6 DEF Mem!Create, Mem!Begin
  <2>4. old # 0 => \A u \in Thread : Mem!Holding(u) => part3[u].old # old
    BY <2>3 DEF Mem!RowFree, Mem!Holding
  <2>6. ASSUME NEW p \in Preference, lock = <<p>>, NEW u \in Thread, Mem!Holding(u)
        PROVE  part3[u].lock # <<p>>
    <3>1. k # NoPreference /\ lock = <<k>>
      <4>1. Len(<<"NONE", t>>) = 2 /\ Len(<<p>>) = 1
        OBVIOUS
      <4> QED
        BY <2>6, <4>1
    <3> QED
      BY <2>3, <2>6, <3>1 DEF Mem!LockFree, Mem!Holding
  <2>7. ASSUME NEW p \in Preference, k = p PROVE lock = <<p>>
    BY <2>7, ServicesAssumption DEF Mem!MemoryAssumption
  <2>8. ASSUME NEW p \in Preference, k = p, Mem!OnlyCorrected(p),
               NEW i \in Mem!Rows, Mem!Active(i), part1[i].key = p
        PROVE  old = i
    BY <2>8, NewestIsAll
  <2> HIDE DEF old, lock
  <2>5. r \in Mem!Creating /\ r.op = "CREATE" /\ r.old = old /\ r.lock = lock /\ r.key = k
    BY <2>1, <2>2 DEF Mem!Creating
  <2> HIDE DEF r
  <2> QED
    BY <1>1, <2>1, <2>3, <2>4, <2>5, <2>6, <2>7, <2>8, MemoryMoves
<1> QED
  BY <1>2, <1>3, <1>4, <1>5, <1>6

\* A candidate becomes a row.
LEMMA PersistNewInv ==
  ASSUME Mem!MemoryInv, NEW t \in Thread, Mem!PersistNew(t) PROVE Mem!MemoryInv'
<1> DEFINE c == part3[t].cand
           old == IF Mem!Outranks(part3[t].old, c) THEN 0 ELSE part3[t].old
           life == IF Mem!Outranks(part3[t].old, c) THEN "CONFLICTED" ELSE "ACTIVE"
           new == Mem!NewRow(part3[t].source, c, life, old)
<1>1. Mem!Stating(t) /\ Mem!Holding(t) /\ part3[t].same = {}
  BY DEF Mem!PersistNew, Mem!Stating, Mem!Holding
<1>2. c \in Candidate /\ part3[t].source \in Source /\ part3[t].old \in Nat
  BY <1>1, PlacedOrCreating DEF Mem!Stating
<1>3. /\ c.content \in Content /\ c.key \in Preference \cup {NoPreference}
      /\ c.confirmed \in BOOLEAN /\ c.correction \in BOOLEAN /\ Mem!Expires(c) \in BOOLEAN
      /\ Mem!Id(c) \in Content \X (Preference \cup {NoPreference})
  BY <1>2, CandidateTyped
<1>4. /\ part1' = Append(Mem!Superseded(old), new)
      /\ part2' = IF life = "ACTIVE" THEN Mem!WithNew(old) ELSE part2
      /\ part3' = [part3 EXCEPT ![t] = Mem!NoRequest]
  <2>1. CASE Mem!Outranks(part3[t].old, c)
    <3>1. Mem!Superseded(0) = part1
      BY DEF Mem!Superseded
    <3> QED
      BY <2>1, <3>1 DEF Mem!PersistNew, Mem!End
  <2>2. CASE ~Mem!Outranks(part3[t].old, c)
    BY <2>2 DEF Mem!PersistNew, Mem!End
  <2> QED
    BY <2>1, <2>2
<1>5. /\ old \in {0, part3[t].old} /\ old \in Nat /\ life \in {"ACTIVE", "CONFLICTED"}
      /\ (life = "CONFLICTED" => old = 0) /\ (life = "ACTIVE" => old = part3[t].old)
  BY <1>2
<1>6. old # 0 /\ part1[old].confirmed => c.confirmed
  BY DEF Mem!Outranks
<1> HIDE DEF old, life
<1>7. /\ new \in Mem!Row /\ new.supersedes = old /\ new.life = life
      /\ new.candidate = Mem!Id(c) /\ new.confirmed = c.confirmed
      /\ new.key = c.key /\ new.corrects = c.correction
  BY <1>2, <1>3, <1>5 DEF Mem!NewRow, Mem!Row
<1> HIDE DEF new
<1>8. \A i \in Mem!Rows : Mem!Active(i) => part1[i].candidate # Mem!Id(c)
  BY <1>1, MemoryParts DEF StatersInv, Mem!ExactActive
<1>9. \A u \in Thread \ {t} : Mem!Stating(u) => Mem!Id(part3[u].cand) # Mem!Id(c)
  BY <1>1, MemoryParts, LocksOfEqual DEF StatersInv
<1>10. old # 0 /\ part1[old].confirmed => new.confirmed
  BY <1>6, <1>7
<1>11. \A d \in Candidate : Mem!Id(d) # Mem!NoCandidate
  BY CandidateTyped
<1>12. new.key \in Preference => part3[t].lock = <<new.key>>
  <2>1. part3[t].lock = Mem!LockOf(c)
    BY <1>1, MemoryParts DEF StatersInv
  <2> QED
    BY <1>7, <2>1, ServicesAssumption DEF Mem!LockOf, Mem!MemoryAssumption
<1>13. new.life = "ACTIVE" /\ new.key \in Preference /\ new.corrects =>
          Mem!Replaces(t, new.key) /\ old = part3[t].old
  BY <1>1, <1>5, <1>7 DEF Mem!Replaces, Mem!Stating
<1> QED
  BY <1>1, <1>4, <1>5, <1>7, <1>8, <1>9, <1>10, <1>11, <1>12, <1>13, MemoryAddInv

\* A record is stated over the API.
LEMMA CreateWriteInv ==
  ASSUME Mem!MemoryInv, NEW t \in Thread, Mem!CreateWrite(t) PROVE Mem!MemoryInv'
<1> DEFINE r == part3[t]
           new == [content |-> r.content, key |-> r.key, source |-> Api,
                   candidate |-> Mem!NoCandidate, confirmed |-> TRUE, life |-> "ACTIVE",
                   supersedes |-> r.old, expires |-> r.expires, expired |-> FALSE,
                   corrects |-> TRUE]
<1>1. r \in Mem!Creating /\ Mem!Holding(t)
  BY PlacedOrCreating DEF Mem!CreateWrite, Mem!Holding, Mem!Creating
<1>2. /\ r.content \in Content /\ r.key \in Preference \cup {NoPreference}
      /\ r.expires \in BOOLEAN /\ r.old \in Nat
  BY <1>1 DEF Mem!Creating
<1>3. /\ part1' = Append(Mem!Superseded(r.old), new) /\ part2' = Mem!WithNew(r.old)
      /\ part3' = [part3 EXCEPT ![t] = Mem!NoRequest]
  BY DEF Mem!CreateWrite, Mem!End
<1>4. /\ new \in Mem!Row /\ new.supersedes = r.old /\ new.life = "ACTIVE"
      /\ new.candidate = Mem!NoCandidate /\ new.confirmed /\ new.key = r.key
  BY <1>2 DEF Mem!Row
<1> HIDE DEF new
<1>5. \A d \in Candidate : Mem!Id(d) # Mem!NoCandidate
  BY CandidateTyped
<1>6. new.key \in Preference =>
         /\ part3[t].lock = <<new.key>> /\ Mem!Replaces(t, new.key)
  BY <1>1, <1>4, MemoryParts DEF Mem!CreateWrite, Mem!Replaces, CreatorsInv
<1> QED
  BY <1>1, <1>3, <1>4, <1>5, <1>6, MemoryAddInv

\* A record is changed or deleted by its user, or expires.
LEMMA MemoryUserInv ==
  ASSUME Mem!MemoryInv, NEW i \in Mem!Rows,
         (\E x \in Content : Mem!Update(i, x)) \/ Mem!Delete(i) \/ Mem!Expire(i)
  PROVE  Mem!MemoryInv'
<1>0. part1[i] \in Mem!Row
  BY MemoryTyped
<1>1. ASSUME NEW new \in Mem!Row, part1' = [part1 EXCEPT ![i] = new], new.life = part1[i].life,
             NEW seq, Orders(seq, part1)
      PROVE  Orders(seq, part1')
  <2>1. Len(part1') = Len(part1) /\ \A j \in Mem!Rows : part1'[j].life = part1[j].life
    BY <1>1, MemoryTyped, ExceptSeq
  <2>2. \A n \in DOMAIN seq : seq[n] \in Mem!Rows
    BY <1>1, ElementOfSeq, LenProperties DEF Orders, Mem!Rows
  <2> QED
    BY <1>1, <2>1, <2>2 DEF Orders
<1>2. ASSUME NEW x \in Content, Mem!Update(i, x) PROVE Mem!MemoryInv'
  <2> DEFINE new == [part1[i] EXCEPT !.content = x]
  <2>1. /\ new \in Mem!Row /\ new.life = part1[i].life /\ new.candidate = part1[i].candidate
        /\ new.supersedes = part1[i].supersedes /\ new.confirmed = part1[i].confirmed
        /\ new.key = part1[i].key /\ new.corrects = part1[i].corrects
    BY <1>0 DEF Mem!Row
  <2>2. part1' = [part1 EXCEPT ![i] = new] /\ part2' = Mem!Touched(i) /\ part3' = part3
    BY <1>2 DEF Mem!Update
  <2> HIDE DEF new
  <2>3. Orders(part2', part1')
    BY <1>1, <2>1, <2>2, TouchedOrder
  <2>4. Orders(part2, part1)'
    BY <2>3 DEF Orders
  <2> QED
    BY <2>1, <2>2, <2>4, MemoryRowInv
<1>3. CASE Mem!Expire(i)
  <2> DEFINE new == [part1[i] EXCEPT !.expired = TRUE]
  <2>1. /\ new \in Mem!Row /\ new.life = part1[i].life /\ new.candidate = part1[i].candidate
        /\ new.supersedes = part1[i].supersedes /\ new.confirmed = part1[i].confirmed
        /\ new.key = part1[i].key /\ new.corrects = part1[i].corrects
    BY <1>0 DEF Mem!Row
  <2>2. part1' = [part1 EXCEPT ![i] = new] /\ part2' = part2 /\ part3' = part3
    BY <1>3 DEF Mem!Expire
  <2> HIDE DEF new
  <2>3. Orders(part2', part1')
    BY <1>1, <2>1, <2>2, MemoryParts
  <2>4. Orders(part2, part1)'
    BY <2>3 DEF Orders
  <2> QED
    BY <2>1, <2>2, <2>4, MemoryRowInv
<1>4. CASE Mem!Delete(i)
  <2> DEFINE new == [part1[i] EXCEPT !.life = "DELETED"]
             o == Mem!Others(i)
  <2>1. /\ new \in Mem!Row /\ new.life = "DELETED" /\ new.candidate = part1[i].candidate
        /\ new.supersedes = part1[i].supersedes /\ new.confirmed = part1[i].confirmed
        /\ new.key = part1[i].key /\ new.corrects = part1[i].corrects
    BY <1>0 DEF Mem!Row
  <2>2. part1' = [part1 EXCEPT ![i] = new] /\ part2' = o /\ part3' = part3
    BY <1>4 DEF Mem!Delete
  <2>3. \A t \in Thread : Mem!Holding(t) => part3[t].old # i
    BY <1>4 DEF Mem!Delete, Mem!Writable, Mem!RowFree, Mem!Holding
  <2>4. /\ o \in Seq(Mem!Rows) /\ \A n \in DOMAIN o : o[n] # i /\ part1[o[n]].life = "ACTIVE"
        /\ \A m, n \in DOMAIN o : o[m] = o[n] => m = n
        /\ \A j \in Mem!Rows : part1[j].life = "ACTIVE" /\ j # i => \E n \in DOMAIN o : o[n] = j
    BY OthersOrder DEF Mem!Active
  <2> HIDE DEF new, o
  <2>5. Len(part1') = Len(part1) /\ \A j \in Mem!Rows : j # i => part1'[j] = part1[j]
    BY <2>1, <2>2, MemoryTyped, ExceptSeq
  <2>6. \A n \in DOMAIN o : o[n] \in Mem!Rows
    BY <2>4, ElementOfSeq, LenProperties
  <2>8. \A j \in Mem!Rows : part1'[j].life = "ACTIVE" => j # i /\ part1[j].life = "ACTIVE"
    BY <2>1, <2>2, <2>5, MemoryTyped
  <2>7. Orders(part2, part1)'
    BY <2>2, <2>4, <2>5, <2>6, <2>8 DEF Orders, Mem!Rows
  <2> QED
    BY <2>1, <2>2, <2>3, <2>7, MemoryRowInv
<1> QED
  BY <1>2, <1>3, <1>4

\* No step and no other scene disturbs it.
LEMMA MemoryStep ==
  ASSUME scene \in {"preference", "episode"} => Mem!MemoryInv, [ServicesNext]_servicesVars
  PROVE  (scene \in {"preference", "episode"} => Mem!MemoryInv)'
<1>1. CASE UNCHANGED servicesVars
  <2> SUFFICES ASSUME Mem!MemoryInv PROVE Mem!MemoryInv'
    BY <1>1 DEF servicesVars
  <2>0. UNCHANGED <<part1, part2, part3>>
    BY <1>1 DEF servicesVars
  <2>1. Orders(part2, part1)' /\ part1' \in Seq(Mem!Row)
        /\ part3' \in [Thread -> {Mem!NoRequest} \cup Mem!Asked \cup Mem!Placed \cup Mem!Creating]
    BY <2>0, MemoryParts DEF Orders
  <2>2. HoldersInv'
    BY <2>0, MemoryParts DEF HoldersInv, Mem!Holding, Mem!Active, Mem!Rows
  <2>3. StatersInv'
    BY <2>0, MemoryParts
       DEF StatersInv, Mem!Stating, Mem!LockOf, Mem!Id, Mem!ExactActive, Mem!Active, Mem!Rows
  <2>4. Mem!StatedOnce' /\ Mem!SupersessionIsAChain'
    BY <2>0, MemoryParts DEF Mem!StatedOnce, Mem!SupersessionIsAChain, Mem!Active, Mem!Rows
  <2>5. CreatorsInv' /\ Mem!LocksAreHeldOnce'
    BY <2>0, MemoryParts DEF CreatorsInv, Mem!LocksAreHeldOnce, Mem!Holding
  <2>6. Mem!OldIsAll' /\ Mem!CorrectedIsOne'
    BY <2>0, MemoryParts DEF Mem!OldIsAll, Mem!CorrectedIsOne, Mem!Replaces, Mem!OnlyCorrected,
                             Mem!Holding, Mem!Active, Mem!Rows
  <2> QED
    BY <2>1, <2>2, <2>3, <2>4, <2>5, <2>6, MemoryNext
<1>2. CASE ServicesNext
  <2> SUFFICES ASSUME scene' \in {"preference", "episode"} PROVE Mem!MemoryInv'
    OBVIOUS
  <2>1. scene \in {"preference", "episode"}
    BY <1>2 DEF ServicesNext
  <2>2. Mem!Next
    BY <1>2, <2>1 DEF ServicesNext, InParts
  <2> QED
    BY <2>1, <2>2, MemoryRequestInv, PersistNewInv, CreateWriteInv, MemoryUserInv DEF Mem!Next
<1> QED
  BY <1>1, <1>2

\* Nothing is remembered at first.
LEMMA MemoryInitInv == Mem!Init => Mem!MemoryInv
<1> SUFFICES ASSUME Mem!Init PROVE Mem!MemoryInv
  OBVIOUS
<1>1. Mem!TypeOK
  BY DEF Mem!Init, Mem!TypeOK
<1>2. Mem!Rows = {} /\ DOMAIN part2 = {} /\ \A t \in Thread : part3[t].op = "NONE"
  BY DEF Mem!Init, Mem!Rows, Mem!NoRequest
<1>3. /\ Mem!StatedOnce /\ Mem!SupersessionIsAChain /\ Mem!CorrectedIsOne
      /\ Mem!OldIsAll /\ Mem!LocksAreHeldOnce
  BY <1>2 DEF Mem!StatedOnce, Mem!SupersessionIsAChain, Mem!CorrectedIsOne, Mem!OldIsAll,
              Mem!LocksAreHeldOnce, Mem!Replaces, Mem!Holding
<1> QED
  BY <1>1, <1>2, <1>3 DEF Mem!MemoryInv, Mem!Holding, Mem!Stating

\* A statement has one active record, a preference that was only ever corrected
\* has one, and a record that was superseded has one successor, for any number of
\* turns, statements and transactions
\* (MemoryRecordStore.persist_candidate, _lock_conflict_scope).
THEOREM PreferencesAreSuperseded == ServicesSpec => []StatementsHaveOneRecord
<1>1. ServicesInit => (scene \in {"preference", "episode"} => Mem!MemoryInv)
  BY MemoryInitInv DEF ServicesInit
<1>2. (scene \in {"preference", "episode"} => Mem!MemoryInv) => StatementsHaveOneRecord
  BY DEF Mem!MemoryInv, StatementsHaveOneRecord
<1> QED
  BY <1>1, <1>2, MemoryStep, PTL DEF ServicesSpec

-----------------------------------------------------------------------------
(* The login guard: now, attempts, locker, attempt and told are the parts  *)
(* 1 to 5.                                                                 *)

\* The constants, and what is in a row.
LEMMA LoginNumbers ==
  /\ FailureLimit \in Nat /\ FailureLimit >= 1 /\ Window \in Nat /\ Window >= 1
  /\ LockTime \in Nat /\ LockTime >= 1 /\ MaxTime \in Nat
  /\ IsFiniteSet(Thread) /\ Cardinality(Thread) \in Nat /\ Lg!Nobody \notin Thread
  /\ Lg!Cardinality(Thread) = Cardinality(Thread)
  /\ Lg!Cardinality(Lg!Early) = Cardinality(Lg!Early)
  /\ IsFiniteSet(Lg!Early) /\ Cardinality(Lg!Early) \in Nat
  /\ Lg!NoRow \notin Lg!Row
  /\ Lg!Time \subseteq Nat
<1>1. /\ FailureLimit \in Nat /\ FailureLimit >= 1 /\ Window \in Nat /\ Window >= 1
      /\ LockTime \in Nat /\ LockTime >= 1 /\ MaxTime \in Nat
      /\ Lg!IsFiniteSet(Thread) /\ Lg!Nobody \notin Thread
  BY ServicesAssumption DEF Lg!LoginAssumption, Lg!Nobody
<1>2. IsFiniteSet(Thread)
  BY <1>1 DEF IsFiniteSet, Lg!IsFiniteSet
<1>3. Lg!Early \subseteq Thread
  BY DEF Lg!Early
<1>4. IsFiniteSet(Lg!Early) /\ Cardinality(Lg!Early) \in Nat /\ Cardinality(Thread) \in Nat
  BY <1>2, <1>3, FS_Subset, FS_CardinalityType
<1>5. Lg!NoRow \notin Lg!Row
  BY <1>1 DEF Lg!NoRow, Lg!Row, Lg!Time
<1> QED
  BY <1>1, <1>2, <1>4, <1>5, SameCardinality DEF Lg!Time

\* A thread leaves.
LEMMA LeaveMoves ==
  ASSUME Lg!LoginInv, NEW t \in Thread, Lg!Leave(t)
  PROVE  /\ part3' \in Thread \cup {Lg!Nobody}
         /\ part4' \in [Thread -> [at : Lg!Step, time : Lg!Time, row : {Lg!NoRow} \cup Lg!Row]]
         /\ part4'[t].at = "IDLE" /\ part4'[t].row = Lg!NoRow
         /\ \A u \in Thread \ {t} : part4'[u] = part4[u]
         /\ part3' = IF part3 = t THEN Lg!Nobody ELSE part3
         /\ Lg!Early' = Lg!Early \ {t}
<1>1. Lg!NoAttempt \in [at : Lg!Step, time : Lg!Time, row : {Lg!NoRow} \cup Lg!Row]
  BY LoginNumbers DEF Lg!NoAttempt, Lg!Step, Lg!Time
<1>2. part4' = [part4 EXCEPT ![t] = Lg!NoAttempt]
      /\ part3' = IF part3 = t THEN Lg!Nobody ELSE part3
  BY DEF Lg!Leave
<1>3. /\ part4 \in [Thread -> [at : Lg!Step, time : Lg!Time, row : {Lg!NoRow} \cup Lg!Row]]
      /\ part3 \in Thread \cup {Lg!Nobody}
  BY DEF Lg!LoginInv, Lg!LoginTypeOK
<1>4. /\ part4' \in [Thread -> [at : Lg!Step, time : Lg!Time, row : {Lg!NoRow} \cup Lg!Row]]
      /\ part4'[t] = Lg!NoAttempt /\ \A u \in Thread \ {t} : part4'[u] = part4[u]
  BY <1>1, <1>2, <1>3
<1>5. Lg!NoAttempt.at = "IDLE" /\ Lg!NoAttempt.row = Lg!NoRow
  BY DEF Lg!NoAttempt
<1>6. Lg!Early' = Lg!Early \ {t}
  BY <1>4, <1>5 DEF Lg!Early
<1> QED
  BY <1>2, <1>3, <1>4, <1>5, <1>6

\* A number of early attempts, one of which leaves.
LEMMA EarlyLeaves ==
  ASSUME NEW t \in Thread
  PROVE  /\ Cardinality(Lg!Early \ {t}) \in Nat /\ Cardinality(Lg!Early \ {t}) < Cardinality(Thread)
         /\ Cardinality(Lg!Early \ {t}) <= Cardinality(Lg!Early)
         /\ t \in Lg!Early => Cardinality(Lg!Early \ {t}) = Cardinality(Lg!Early) - 1
<1>1. Lg!Early \ {t} \subseteq Thread \ {t} /\ Lg!Early \subseteq Thread
  BY DEF Lg!Early
<1>2. IsFiniteSet(Thread \ {t}) /\ Cardinality(Thread \ {t}) = Cardinality(Thread) - 1
  BY LoginNumbers, FS_RemoveElement
<1>3. IsFiniteSet(Lg!Early \ {t}) /\ Cardinality(Lg!Early \ {t}) \in Nat
  BY LoginNumbers, FS_Subset, FS_CardinalityType, <1>1, <1>2
<1>4. Cardinality(Lg!Early \ {t}) <= Cardinality(Thread \ {t})
  BY <1>1, <1>2, FS_Subset
<1>5. Cardinality(Lg!Early \ {t}) <= Cardinality(Lg!Early)
  BY LoginNumbers, FS_Subset
<1>6. t \in Lg!Early => Cardinality(Lg!Early \ {t}) = Cardinality(Lg!Early) - 1
  BY LoginNumbers, FS_RemoveElement
<1> QED
  BY <1>2, <1>3, <1>4, <1>5, <1>6, LoginNumbers

\* The clock moves on.
LEMMA TickInv ==
  ASSUME Lg!LoginInv, Lg!Tick PROVE Lg!LoginInv'
<1>1. UNCHANGED <<part2, part3, part4, part5>> /\ part1' \in Lg!Time
  BY LoginNumbers DEF Lg!Tick, Lg!LoginInv, Lg!LoginTypeOK, Lg!Time
<1>2. Lg!Early' = Lg!Early
  BY <1>1 DEF Lg!Early
<1> QED
  BY <1>1, <1>2, LoginNumbers DEF Lg!LoginInv, Lg!LoginTypeOK, Lg!LockerInv, Lg!RowInv

\* An attempt ends without a count, or is refused.
LEMMA QuietLeave ==
  ASSUME Lg!LoginInv, NEW t \in Thread, Lg!Leave(t), UNCHANGED <<part1, part2, part5>>
  PROVE  Lg!LoginInv'
<1>1. Lg!LoginTypeOK'
  BY LeaveMoves DEF Lg!LoginInv, Lg!LoginTypeOK
<1>2. Lg!LockerInv'
  BY LeaveMoves DEF Lg!LoginInv, Lg!LoginTypeOK, Lg!LockerInv
<1>3. Lg!RowInv'
  <2> SUFFICES ASSUME part2 # Lg!NoRow PROVE Lg!RowInv'
    BY DEF Lg!RowInv
  <2>1. part2.count \in Nat
    BY DEF Lg!LoginInv, Lg!LoginTypeOK, Lg!Row
  <2>2. Lg!Early' = Lg!Early \ {t}
    BY LeaveMoves
  <2>3. Lg!Cardinality(Lg!Early \ {t}) = Cardinality(Lg!Early \ {t})
    BY SameCardinality
  <2>4. /\ Cardinality(Lg!Early \ {t}) < Cardinality(Thread)
        /\ part2.count + Cardinality(Lg!Early \ {t}) < FailureLimit + Cardinality(Thread)
    BY <2>1, EarlyLeaves, LoginNumbers DEF Lg!LoginInv, Lg!RowInv
  <2> QED
    BY <2>2, <2>3, <2>4, LoginNumbers DEF Lg!LoginInv, Lg!RowInv
<1> QED
  BY <1>1, <1>2, <1>3 DEF Lg!LoginInv

\* The clock is read.
LEMMA ClockReadInv ==
  ASSUME Lg!LoginInv, NEW t \in Thread, Lg!Ask(t) \/ Lg!Fail(t)
  PROVE  Lg!LoginInv'
<1>1. UNCHANGED <<part1, part2, part3, part5>>
  BY DEF Lg!Ask, Lg!Fail
<1>2. PICK step \in {"ASKED", "FAILING"} :
         /\ part4' = [part4 EXCEPT ![t].at = step, ![t].time = part1]
         /\ part4[t].at = IF step = "ASKED" THEN "IDLE" ELSE "CHECKING"
  BY DEF Lg!Ask, Lg!Fail
<1>3. part4 \in [Thread -> [at : Lg!Step, time : Lg!Time, row : {Lg!NoRow} \cup Lg!Row]]
      /\ part1 \in Lg!Time /\ step \in Lg!Step
  BY DEF Lg!LoginInv, Lg!LoginTypeOK, Lg!Step
<1>4. /\ part4' \in [Thread -> [at : Lg!Step, time : Lg!Time, row : {Lg!NoRow} \cup Lg!Row]]
      /\ part4'[t].at = step /\ part4'[t].row = part4[t].row
      /\ \A u \in Thread \ {t} : part4'[u] = part4[u]
  BY <1>2, <1>3
<1>5. part4[t].at = "IDLE" => part4[t].row = Lg!NoRow
  BY DEF Lg!LoginInv, Lg!LockerInv
<1>6. Lg!Early' = Lg!Early
  BY <1>2, <1>4 DEF Lg!Early
<1>7. Lg!LockerInv'
  BY <1>1, <1>2, <1>4, <1>5 DEF Lg!LoginInv, Lg!LoginTypeOK, Lg!LockerInv
<1> QED
  BY <1>1, <1>4, <1>6, <1>7, LoginNumbers DEF Lg!LoginInv, Lg!LoginTypeOK, Lg!RowInv

\* An attempt gets the row, or finds none.
LEMMA EnsureAllowedInv ==
  ASSUME Lg!LoginInv, NEW t \in Thread, Lg!EnsureAllowed(t)
  PROVE  Lg!LoginInv'
<1> DEFINE time == part4[t].time
           row == IF Lg!LockOverAt(time) THEN Lg!Fresh(time) ELSE part2
<1>1. /\ UNCHANGED <<part1, part2, part5>> /\ part4[t].at = "ASKED"
      /\ part4' = [part4 EXCEPT ![t].at = "CHECKING", ![t].row = row]
      /\ part3' = IF part2 # Lg!NoRow THEN t ELSE part3
      /\ part2 # Lg!NoRow => Lg!Mine(t) /\ ~Lg!LockedAt(time)
  BY DEF Lg!EnsureAllowed
<1>2. /\ part4 \in [Thread -> [at : Lg!Step, time : Lg!Time, row : {Lg!NoRow} \cup Lg!Row]]
      /\ part2 \in {Lg!NoRow} \cup Lg!Row /\ part3 \in Thread \cup {Lg!Nobody} /\ time \in Lg!Time
  BY DEF Lg!LoginInv, Lg!LoginTypeOK
<1>3. Lg!Fresh(time) \in Lg!Row /\ Lg!Fresh(time).since = time
  BY <1>2 DEF Lg!Fresh, Lg!Row, Lg!Unlocked
<1>4. part2 = Lg!NoRow => row = Lg!NoRow
  BY DEF Lg!LockOverAt, Lg!NoRow, Lg!Unlocked
<1>5. part2 # Lg!NoRow =>
         \/ row = part2 /\ part2.until = Lg!Unlocked
         \/ row = Lg!Fresh(row.since) /\ part2.until # Lg!Unlocked
  BY <1>1, <1>3 DEF Lg!LockOverAt
<1>6. row \in {Lg!NoRow} \cup Lg!Row /\ (part2 # Lg!NoRow => row # Lg!NoRow)
  BY <1>2, <1>3, LoginNumbers
<1> HIDE DEF row
<1>7. /\ part4' \in [Thread -> [at : Lg!Step, time : Lg!Time, row : {Lg!NoRow} \cup Lg!Row]]
      /\ part4'[t].at = "CHECKING" /\ part4'[t].row = row
      /\ \A u \in Thread \ {t} : part4'[u] = part4[u]
  BY <1>1, <1>2, <1>6 DEF Lg!Step
<1>8. part4[t].row = Lg!NoRow
  BY <1>1 DEF Lg!LoginInv, Lg!LockerInv
<1>9. part2 # Lg!NoRow => \A u \in Thread \ {t} : part4[u].row = Lg!NoRow
  BY <1>1, LoginNumbers DEF Lg!LoginInv, Lg!LockerInv, Lg!Mine
<1>10. Lg!LoginTypeOK'
  BY <1>1, <1>2, <1>7 DEF Lg!LoginInv, Lg!LoginTypeOK
<1>11. CASE part2 # Lg!NoRow
  <2>1. part3' = t /\ row # Lg!NoRow
    BY <1>1, <1>6, <1>11
  <2>2. Lg!LockerInv'
    BY <1>1, <1>5, <1>7, <1>9, <1>11, <2>1 DEF Lg!LockerInv
  <2>3. Lg!Early' = Lg!Early
    BY <1>1, <1>7, <2>1 DEF Lg!Early
  <2>4. Lg!RowInv'
    BY <1>1, <2>3, LoginNumbers DEF Lg!LoginInv, Lg!RowInv
  <2> QED
    BY <1>10, <2>2, <2>4 DEF Lg!LoginInv
<1>12. CASE part2 = Lg!NoRow
  <2>1. part3' = part3 /\ row = Lg!NoRow
    BY <1>1, <1>4, <1>12
  <2>2. Lg!LockerInv'
    BY <1>1, <1>7, <1>12, <2>1, LoginNumbers DEF Lg!LoginInv, Lg!LockerInv
  <2> QED
    BY <1>1, <1>10, <1>12, <2>2 DEF Lg!LoginInv, Lg!RowInv
<1> QED
  BY <1>11, <1>12

\* The password was right: the row is removed.
LEMMA RecordSuccessInv ==
  ASSUME Lg!LoginInv, NEW t \in Thread, Lg!RecordSuccess(t)
  PROVE  Lg!LoginInv'
<1>1. /\ part2' = Lg!NoRow /\ part1' = part1 /\ part5' = 0 /\ Lg!Leave(t) /\ Lg!Mine(t)
  BY DEF Lg!RecordSuccess
<1>2. part3' = Lg!Nobody
  BY <1>1, LeaveMoves DEF Lg!Mine
<1>3. \A u \in Thread : part4'[u].row = Lg!NoRow
  BY <1>1, LeaveMoves, LoginNumbers DEF Lg!Mine, Lg!LoginInv, Lg!LockerInv
<1>4. Lg!LoginTypeOK' /\ Lg!LockerInv'
  BY <1>1, <1>2, <1>3, LeaveMoves DEF Lg!LoginInv, Lg!LoginTypeOK, Lg!LockerInv
<1> QED
  BY <1>1, <1>4 DEF Lg!LoginInv, Lg!RowInv

\* The row that a failure leaves: a window of one, or one more than was told,
\* which is past the limit only where an early attempt leaves.
LEMMA FailureCounts ==
  ASSUME Lg!LoginInv, NEW t \in Thread, Lg!RecordFailure(t)
  PROVE  LET row == Lg!Counted(Lg!Found(t), part4[t].time)
             e == Cardinality(Lg!Early \ {t})
         IN  /\ row \in Lg!Row /\ row.count = part5' /\ row.count >= 1
             /\ row.count < FailureLimit => row.until = Lg!Unlocked
             /\ row.count + e < FailureLimit + Cardinality(Thread)
<1> DEFINE time == part4[t].time
           found == Lg!Found(t)
           row == Lg!Counted(found, time)
           e == Cardinality(Lg!Early \ {t})
<1>1. /\ part4[t].at = "FAILING" /\ Lg!Mine(t)
      /\ part5' = IF Lg!StartsAnew(t) THEN 1 ELSE part5 + 1
  BY DEF Lg!RecordFailure
<1>2. time \in Lg!Time /\ time \in Nat /\ part4[t].row \in {Lg!NoRow} \cup Lg!Row
      /\ part2 \in {Lg!NoRow} \cup Lg!Row /\ part5 \in Nat
  BY LoginNumbers DEF Lg!LoginInv, Lg!LoginTypeOK
<1>3. Lg!Fresh(time) \in Lg!Row /\ Lg!Fresh(time).count = 0 /\ Lg!Fresh(time).until = Lg!Unlocked
  BY <1>2 DEF Lg!Fresh, Lg!Row, Lg!Unlocked
<1>4. found \in Lg!Row
  BY <1>2, <1>3 DEF Lg!Found
<1>5. found.count \in Nat /\ found.since \in Nat /\ found.until \in Nat
  BY <1>4, LoginNumbers DEF Lg!Row
<1>6. CASE Lg!Begins(found, time)
  <2>1. row = [count |-> 1, since |-> time, until |-> Lg!Unlocked]
    BY <1>6 DEF Lg!Counted
  <2>2. Lg!StartsAnew(t)
    <3>1. CASE part4[t].row # Lg!NoRow
      <4>1. part2.until # Lg!Unlocked \/ part4[t].row = part2
        BY <3>1 DEF Lg!LoginInv, Lg!LockerInv
      <4>2. part4[t].row \in Lg!Row /\ found = part4[t].row
        BY <1>2, <3>1 DEF Lg!Found
      <4> QED
        BY <1>6, <4>1, <4>2 DEF Lg!StartsAnew
    <3>2. CASE part4[t].row = Lg!NoRow
      BY <1>6, <3>2 DEF Lg!StartsAnew, Lg!Found
    <3> QED
      BY <3>1, <3>2
  <2>3. row \in Lg!Row /\ row.count = 1 /\ row.until = Lg!Unlocked
    BY <1>2, <2>1 DEF Lg!Row, Lg!Unlocked
  <2> HIDE DEF row, e
  <2>4. row.count + e < FailureLimit + Cardinality(Thread)
    BY <2>3, EarlyLeaves, LoginNumbers DEF e
  <2> QED
    BY <1>1, <2>2, <2>3, <2>4 DEF row, e
<1>7. CASE ~Lg!Begins(found, time)
  <2>1. row = [found EXCEPT !.count = found.count + 1]
    BY <1>7 DEF Lg!Counted
  <2>2. row \in Lg!Row /\ row.count = found.count + 1 /\ row.until = found.until
    BY <1>4, <1>5, <2>1 DEF Lg!Row
  <2>3. CASE part4[t].row # Lg!NoRow /\ part4[t].row = part2 /\ part2.until = Lg!Unlocked
    <3>1. found = part2 /\ part2 # Lg!NoRow
      BY <2>3 DEF Lg!Found
    <3>2. ~Lg!StartsAnew(t)
      BY <1>7, <2>3, <3>1 DEF Lg!StartsAnew
    <3>3. part2.count = part5 /\ part2.count < FailureLimit
      BY <2>3, <3>1 DEF Lg!LoginInv, Lg!RowInv
    <3> HIDE DEF row, e
    <3>4. row.count + e < FailureLimit + Cardinality(Thread)
      BY <1>5, <2>2, <3>1, <3>3, EarlyLeaves, LoginNumbers DEF e
    <3> QED
      BY <1>1, <1>2, <2>2, <2>3, <3>1, <3>2, <3>3, <3>4 DEF row, e
  <2>4. CASE part4[t].row # Lg!NoRow /\ part2.until # Lg!Unlocked
    <3>1. found = part4[t].row /\ part4[t].row \in Lg!Row
      BY <1>2, <2>4 DEF Lg!Found
    <3>2. Lg!StartsAnew(t)
      BY <2>4, <3>1 DEF Lg!StartsAnew
    <3>3. found = Lg!Fresh(found.since)
      BY <2>4, <3>1 DEF Lg!LoginInv, Lg!LockerInv
    <3>4. found.count = 0 /\ found.until = Lg!Unlocked
      BY <3>3 DEF Lg!Fresh
    <3> HIDE DEF row, e
    <3>5. row.count + e < FailureLimit + Cardinality(Thread)
      BY <2>2, <3>4, EarlyLeaves, LoginNumbers DEF e
    <3> QED
      BY <1>1, <2>2, <3>2, <3>4, <3>5 DEF row, e
  <2>5. CASE part4[t].row = Lg!NoRow /\ part2 # Lg!NoRow
    <3>1. found = part2
      BY <2>5 DEF Lg!Found
    <3>2. ~Lg!StartsAnew(t)
      BY <1>7, <2>5, <3>1, LoginNumbers DEF Lg!StartsAnew
    <3>3. t \in Lg!Early
      BY <1>1, <2>5 DEF Lg!Early
    <3>4. /\ part2.count = part5 /\ (part2.until = Lg!Unlocked <=> part2.count < FailureLimit)
          /\ part2.count + Cardinality(Lg!Early) < FailureLimit + Cardinality(Thread)
      BY <2>5, LoginNumbers DEF Lg!LoginInv, Lg!RowInv
    <3> HIDE DEF row, e
    <3>5. row.count + e < FailureLimit + Cardinality(Thread)
      BY <1>5, <2>2, <3>1, <3>3, <3>4, EarlyLeaves, LoginNumbers DEF e
    <3>6. row.count < FailureLimit => row.until = Lg!Unlocked
      BY <1>5, <2>2, <3>1, <3>4, LoginNumbers
    <3> QED
      BY <1>1, <1>2, <2>2, <3>1, <3>2, <3>4, <3>5, <3>6 DEF row, e
  <2>6. CASE part4[t].row = Lg!NoRow /\ part2 = Lg!NoRow
    <3>1. found = Lg!Fresh(time) /\ Lg!StartsAnew(t)
      BY <2>6 DEF Lg!Found, Lg!StartsAnew
    <3>2. found.count = 0 /\ found.until = Lg!Unlocked
      BY <1>3, <3>1
    <3> HIDE DEF row, e
    <3>3. row.count + e < FailureLimit + Cardinality(Thread)
      BY <2>2, <3>2, EarlyLeaves, LoginNumbers DEF e
    <3> QED
      BY <1>1, <2>2, <3>1, <3>2, <3>3 DEF row, e
  <2> QED
    BY <2>3, <2>4, <2>5, <2>6 DEF Lg!LoginInv, Lg!LockerInv
<1> QED
  BY <1>6, <1>7

\* The password was wrong: the failure is counted, and may lock the row.
LEMMA RecordFailureInv ==
  ASSUME Lg!LoginInv, NEW t \in Thread, Lg!RecordFailure(t) PROVE Lg!LoginInv'
<1> DEFINE time == part4[t].time
           row == Lg!Counted(Lg!Found(t), time)
<1>1. /\ part2' = (IF row.count >= FailureLimit THEN [row EXCEPT !.until = time + LockTime] ELSE row)
      /\ part1' = part1 /\ Lg!Leave(t) /\ Lg!Mine(t)
  BY DEF Lg!RecordFailure
<1>2. /\ row \in Lg!Row /\ row.count = part5' /\ row.count >= 1
      /\ row.count < FailureLimit => row.until = Lg!Unlocked
      /\ row.count + Cardinality(Lg!Early \ {t}) < FailureLimit + Cardinality(Thread)
  BY FailureCounts
<1> HIDE DEF row
<1>3. /\ row.count \in Nat /\ time + LockTime \in Nat /\ time + LockTime # Lg!Unlocked
  <2>1. time \in Nat
    BY LoginNumbers DEF Lg!LoginInv, Lg!LoginTypeOK
  <2>2. row.count \in Nat
    BY <1>2 DEF Lg!Row
  <2> HIDE DEF time
  <2> QED
    BY <2>1, <2>2, LoginNumbers DEF Lg!Unlocked
<1>4. /\ part2' \in Lg!Row /\ part2'.count = row.count
      /\ part2'.until = Lg!Unlocked <=> row.count < FailureLimit
  BY <1>1, <1>2, <1>3, LoginNumbers DEF Lg!Row
<1>5. part2' # Lg!NoRow
  BY <1>4, LoginNumbers
<1>6. part3' = Lg!Nobody
  BY <1>1, LeaveMoves DEF Lg!Mine
<1>7. \A u \in Thread : part4'[u].row = Lg!NoRow
  BY <1>1, LeaveMoves, LoginNumbers DEF Lg!Mine, Lg!LoginInv, Lg!LockerInv
<1>8. Lg!LoginTypeOK' /\ Lg!LockerInv'
  BY <1>1, <1>2, <1>3, <1>4, <1>5, <1>6, <1>7, LeaveMoves
     DEF Lg!LoginInv, Lg!LoginTypeOK, Lg!LockerInv
<1>9. Lg!RowInv'
  <2>1. Lg!Early' = Lg!Early \ {t}
    BY <1>1, LeaveMoves
  <2>2. Lg!Cardinality(Lg!Early \ {t}) = Cardinality(Lg!Early \ {t})
    BY SameCardinality
  <2> QED
    BY <1>2, <1>4, <2>1, <2>2, EarlyLeaves, LoginNumbers DEF Lg!RowInv
<1> QED
  BY <1>8, <1>9 DEF Lg!LoginInv

\* No step and no other scene disturbs it.
LEMMA LoginStep ==
  ASSUME scene = "login" => Lg!LoginInv, [ServicesNext]_servicesVars
  PROVE  (scene = "login" => Lg!LoginInv)'
<1>1. CASE UNCHANGED servicesVars
  <2>1. UNCHANGED <<scene, part1, part2, part3, part4, part5>>
    BY <1>1 DEF servicesVars
  <2> QED
    BY <2>1 DEF Lg!LoginInv, Lg!LoginTypeOK, Lg!LockerInv, Lg!RowInv, Lg!Early
<1>2. CASE ServicesNext
  <2> SUFFICES ASSUME scene' = "login" PROVE Lg!LoginInv'
    OBVIOUS
  <2>1. scene = "login"
    BY <1>2 DEF ServicesNext
  <2>2. Lg!LoginNext
    BY <1>2, <2>1 DEF ServicesNext, InParts
  <2>3. ASSUME NEW t \in Thread, Lg!RefuseLocked(t) \/ Lg!LoginAbort(t) PROVE Lg!LoginInv'
    <3>1. Lg!Leave(t) /\ UNCHANGED <<part1, part2, part5>>
      BY <2>3 DEF Lg!RefuseLocked, Lg!LoginAbort
    <3> QED
      BY <2>1, <3>1, QuietLeave
  <2> QED
    BY <2>1, <2>2, <2>3, TickInv, ClockReadInv, EnsureAllowedInv, RecordFailureInv, RecordSuccessInv
       DEF Lg!LoginNext
<1> QED
  BY <1>1, <1>2

\* However many attempts are made at once, and however long each waits for the
\* row with the time it has read, the row counts every failure of its window, and
\* past the limit no wrong password is told but to attempts that began without a
\* row, for any limit, window, lock and number of attempts
\* (LoginGuard.ensure_allowed, LoginGuard.record_failure).
THEOREM FailuresStayBounded == ServicesSpec => []FailuresAreBounded
<1>1. ServicesInit => (scene = "login" => Lg!LoginInv)
  <2> SUFFICES ASSUME Lg!LoginInit PROVE Lg!LoginInv
    BY DEF ServicesInit
  <2>1. Lg!NoAttempt \in [at : Lg!Step, time : Lg!Time, row : {Lg!NoRow} \cup Lg!Row]
        /\ 0 \in Lg!Time
    BY LoginNumbers DEF Lg!NoAttempt, Lg!Step, Lg!Time
  <2>2. Lg!LoginTypeOK /\ part2 = Lg!NoRow
    BY <2>1 DEF Lg!LoginInit, Lg!LoginTypeOK
  <2>3. Lg!LockerInv
    BY DEF Lg!LoginInit, Lg!LockerInv, Lg!NoAttempt
  <2> QED
    BY <2>2, <2>3 DEF Lg!LoginInv, Lg!RowInv
<1>2. (scene = "login" => Lg!LoginInv) => FailuresAreBounded
  <2> SUFFICES ASSUME Lg!LoginInv, scene = "login" PROVE Lg!FailuresAreBounded
    BY DEF FailuresAreBounded
  <2>1. part5 \in Nat
    BY DEF Lg!LoginInv, Lg!LoginTypeOK
  <2>2. CASE part2 # Lg!NoRow
    BY <2>1, <2>2, LoginNumbers DEF Lg!LoginInv, Lg!RowInv, Lg!FailuresAreBounded
  <2>3. CASE part2 = Lg!NoRow
    BY <2>1, <2>3, LoginNumbers DEF Lg!LoginInv, Lg!LockerInv, Lg!FailuresAreBounded
  <2> QED
    BY <2>2, <2>3
<1> QED
  BY <1>1, <1>2, LoginStep, PTL DEF ServicesSpec

-----------------------------------------------------------------------------
(* Confirmation, in variables of its own: approve takes a row from PENDING *)
(* to APPROVED for one confirmation only, which nothing undoes until that  *)
(* confirmation has written and made it CONSUMED.  That consume lets a     *)
(* CONSUMED row through does no harm: nobody who refers to one gets there  *)
(* any more.                                                               *)

\* A confirmation that approve let through.
Through(t) == confirm[t].at \in {"APPROVED", "WRITING"}

ConfirmTyped ==
    /\ approval \in Seq(ApprovalRow)
    /\ token \in [Confirm -> TokenRow]
    /\ confirm \in [Confirm -> [at : At, ref : Nat]]
    /\ written \in Seq(Nat)

\* The inductive invariant.
ConfirmInv ==
    /\ ConfirmTyped
    /\ \A i, j \in OpenApprovals : i = j
    /\ \A t \in Confirm :
          /\ confirm[t].at \in {"PENDING", "APPROVED", "WRITING"} => confirm[t].ref \in DOMAIN approval
          /\ Through(t) => approval[confirm[t].ref].status = "APPROVED"
    /\ \A t, u \in Confirm :
          Through(t) /\ Through(u) /\ confirm[t].ref = confirm[u].ref => t = u
    /\ \A n \in DOMAIN written :
          written[n] \in DOMAIN approval /\ approval[written[n]].status = "CONSUMED"
    /\ \A m, n \in DOMAIN written : written[m] = written[n] => m = n

\* Nothing is there yet.
LEMMA ConfirmInitInv == ConfirmInit => ConfirmInv
<1> SUFFICES ASSUME ConfirmInit PROVE ConfirmInv
  OBVIOUS
<1>1. ConfirmTyped
  BY DEF ConfirmInit, ConfirmTyped, TokenRow, At
<1>2. DOMAIN approval = {} /\ DOMAIN written = {} /\ OpenApprovals = {}
  BY DEF ConfirmInit, OpenApprovals
<1>3. \A t \in Confirm : confirm[t].at = "NONE"
  BY DEF ConfirmInit
<1> QED
  BY <1>1, <1>2, <1>3 DEF ConfirmInv, Through

\* A confirmation goes elsewhere, and the approvals stay as they are.
LEMMA ConfirmMoves ==
  ASSUME ConfirmInv, NEW t \in Confirm, NEW new \in [at : At, ref : Nat],
         confirm' = [confirm EXCEPT ![t] = new],
         new.at = "PENDING" => new.ref \in DOMAIN approval,
         new.at \in {"APPROVED", "WRITING"} => Through(t) /\ new.ref = confirm[t].ref,
         token' \in [Confirm -> TokenRow], UNCHANGED <<approval, written>>
  PROVE  ConfirmInv'
<1>1. /\ confirm \in [Confirm -> [at : At, ref : Nat]]
      /\ confirm'[t] = new /\ \A u \in Confirm \ {t} : confirm'[u] = confirm[u]
  BY DEF ConfirmInv, ConfirmTyped
<1>2. ConfirmTyped'
  BY <1>1 DEF ConfirmInv, ConfirmTyped
<1>3. \A u \in Confirm : Through(u)' => Through(u) /\ confirm'[u].ref = confirm[u].ref
  BY <1>1 DEF Through
<1>4. \A u \in Confirm : confirm'[u].at \in {"PENDING", "APPROVED", "WRITING"}
                            => confirm'[u].ref \in DOMAIN approval
  BY <1>1 DEF ConfirmInv, Through
<1>5. \A u \in Confirm : Through(u)' => approval[confirm'[u].ref].status = "APPROVED"
  BY <1>3 DEF ConfirmInv
<1>6. \A u, v \in Confirm : Through(u)' /\ Through(v)' /\ confirm'[u].ref = confirm'[v].ref => u = v
  BY <1>3 DEF ConfirmInv
<1>7. \A i, j \in OpenApprovals' : i = j
  BY DEF ConfirmInv, OpenApprovals, IsOpen
<1> QED
  BY <1>2, <1>4, <1>5, <1>6, <1>7 DEF ConfirmInv

\* Going on to another place keeps the approval that is referred to.
LEMMA GotoMoves ==
  ASSUME ConfirmInv, NEW t \in Confirm, NEW at \in At, Goto(t, at)
  PROVE  confirm' = [confirm EXCEPT ![t] = [at |-> at, ref |-> confirm[t].ref]]
<1>1. confirm \in [Confirm -> [at : At, ref : Nat]] /\ confirm[t] \in [at : At, ref : Nat]
  BY DEF ConfirmInv, ConfirmTyped
<1>2. [confirm[t] EXCEPT !.at = at] = [at |-> at, ref |-> confirm[t].ref]
  BY <1>1
<1>3. confirm' = [confirm EXCEPT ![t] = [confirm[t] EXCEPT !.at = at]]
  BY DEF Goto
<1> QED
  BY <1>2, <1>3

\* What the rows of the approvals look like from outside.
LEMMA ApprovalsOf ==
  ASSUME ConfirmInv
  PROVE  /\ DOMAIN approval = 1..Len(approval) /\ Len(approval) \in Nat
         /\ \A i \in DOMAIN approval : approval[i] \in ApprovalRow
         /\ \A n \in DOMAIN written : written[n] \in DOMAIN approval
  BY LenProperties, ElementOfSeq DEF ConfirmInv, ConfirmTyped

\* An approval changes that nobody was let through with, or a new one comes,
\* while a confirmation may go to it or leave.
LEMMA ApprovalsInv ==
  ASSUME ConfirmInv, approval' \in Seq(ApprovalRow), DOMAIN approval \subseteq DOMAIN approval',
         \A i \in DOMAIN approval :
            approval[i].status \in {"APPROVED", "CONSUMED"} => approval'[i].status = approval[i].status,
         \A i, j \in OpenApprovals' : i = j,
         NEW t \in Confirm, NEW new \in [at : At, ref : Nat],
         confirm' = [confirm EXCEPT ![t] = new],
         new.at = "PENDING" => new.ref \in DOMAIN approval',
         new.at \in {"APPROVED", "WRITING"} =>
            /\ new.ref \in DOMAIN approval' /\ approval'[new.ref].status = "APPROVED"
            /\ \A u \in Confirm \ {t} : Through(u) => confirm[u].ref # new.ref,
         UNCHANGED <<token, written>>
  PROVE  ConfirmInv'
<1>1. /\ confirm \in [Confirm -> [at : At, ref : Nat]]
      /\ confirm'[t] = new /\ \A u \in Confirm \ {t} : confirm'[u] = confirm[u]
  BY DEF ConfirmInv, ConfirmTyped
<1>2. ConfirmTyped'
  BY <1>1 DEF ConfirmInv, ConfirmTyped
<1>3. ASSUME NEW u \in Confirm
      PROVE  /\ confirm'[u].at \in {"PENDING", "APPROVED", "WRITING"} => confirm'[u].ref \in DOMAIN approval'
             /\ Through(u)' => approval'[confirm'[u].ref].status = "APPROVED"
  <2>1. CASE u = t
    BY <2>1, <1>1 DEF Through
  <2>2. CASE u # t
    <3>1. confirm'[u] = confirm[u]
      BY <2>2, <1>1
    <3>2. /\ confirm[u].at \in {"PENDING", "APPROVED", "WRITING"} => confirm[u].ref \in DOMAIN approval
          /\ Through(u) => approval[confirm[u].ref].status = "APPROVED"
      BY DEF ConfirmInv
    <3> QED
      BY <3>1, <3>2 DEF Through
  <2> QED
    BY <2>1, <2>2
<1>4. ASSUME NEW u \in Confirm, NEW v \in Confirm,
             Through(u)', Through(v)', confirm'[u].ref = confirm'[v].ref
      PROVE  u = v
  <2>1. CASE u # t /\ v # t
    BY <2>1, <1>1, <1>4 DEF ConfirmInv, Through
  <2>2. CASE u = t \/ v = t
    BY <2>2, <1>1, <1>4 DEF Through
  <2> QED
    BY <2>1, <2>2
<1>5. ASSUME NEW n \in DOMAIN written
      PROVE  written[n] \in DOMAIN approval' /\ approval'[written[n]].status = "CONSUMED"
  <2>1. written[n] \in DOMAIN approval /\ approval[written[n]].status = "CONSUMED"
    BY DEF ConfirmInv
  <2> QED
    BY <2>1
<1>6. \A m, n \in DOMAIN written : written[m] = written[n] => m = n
  BY DEF ConfirmInv
<1> QED
  BY <1>2, <1>3, <1>4, <1>5, <1>6 DEF ConfirmInv

-----------------------------------------------------------------------------
(* The steps that leave the approvals as they are.                        *)

\* A token is issued.
LEMMA IssueTokenInv == ASSUME ConfirmInv, NEW t \in Confirm, IssueToken(t) PROVE ConfirmInv'
<1>1. token' \in [Confirm -> TokenRow]
  BY DEF IssueToken, ConfirmInv, ConfirmTyped, TokenRow
<1>2. confirm' = [confirm EXCEPT ![t] = [at |-> "ISSUED", ref |-> confirm[t].ref]]
  BY GotoMoves DEF IssueToken, At
<1>3. [at |-> "ISSUED", ref |-> confirm[t].ref] \in [at : At, ref : Nat]
  BY DEF ConfirmInv, ConfirmTyped, At
<1> QED
  BY <1>1, <1>2, <1>3, ConfirmMoves DEF IssueToken

\* A confirmation ends without its write.
LEMMA ConfirmLeaves ==
  ASSUME ConfirmInv, NEW t \in Confirm, NEW at \in {"MISSING", "OUT"}, Goto(t, at),
         UNCHANGED <<approval, token, written>>
  PROVE  ConfirmInv'
<1>1. confirm' = [confirm EXCEPT ![t] = [at |-> at, ref |-> confirm[t].ref]]
  BY GotoMoves DEF At
<1>2. [at |-> at, ref |-> confirm[t].ref] \in [at : At, ref : Nat]
  BY DEF ConfirmInv, ConfirmTyped, At
<1>3. token' \in [Confirm -> TokenRow]
  BY DEF ConfirmInv, ConfirmTyped
<1> QED
  BY <1>1, <1>2, <1>3, ConfirmMoves

\* One goes on with the approval that is open.
LEMMA TakeOpenInv ==
  ASSUME ConfirmInv, NEW t \in Confirm, NEW i \in OpenApprovals, Refers(t, "PENDING", i),
         UNCHANGED <<approval, token, written>>
  PROVE  ConfirmInv'
<1>1. i \in DOMAIN approval /\ i \in Nat
  BY ApprovalsOf DEF OpenApprovals
<1>2. [at |-> "PENDING", ref |-> i] \in [at : At, ref : Nat]
  BY <1>1 DEF At
<1>3. token' \in [Confirm -> TokenRow]
  BY DEF ConfirmInv, ConfirmTyped
<1> QED
  BY <1>1, <1>2, <1>3, ConfirmMoves DEF Refers

\* consume lets an approved one write.
LEMMA TokenConsumeInv == ASSUME ConfirmInv, NEW t \in Confirm, Consume(t) PROVE ConfirmInv'
<1>1. CASE Consumable(t)
  <2>1. confirm' = [confirm EXCEPT ![t] = [at |-> "WRITING", ref |-> confirm[t].ref]]
    BY <1>1, GotoMoves DEF Consume, At
  <2>2. [at |-> "WRITING", ref |-> confirm[t].ref] \in [at : At, ref : Nat]
    BY DEF ConfirmInv, ConfirmTyped, At
  <2>3. token' \in [Confirm -> TokenRow] /\ Through(t)
    BY DEF ConfirmInv, ConfirmTyped, Consume, Through
  <2> QED
    BY <2>1, <2>2, <2>3, ConfirmMoves DEF Consume
<1>2. CASE ~Consumable(t)
  BY <1>2, ConfirmLeaves DEF Consume
<1> QED
  BY <1>1, <1>2

\* A token runs out.
LEMMA TokenExpiresInv == ASSUME ConfirmInv, NEW t \in Confirm, TokenExpires(t) PROVE ConfirmInv'
<1>1. token' \in [Confirm -> TokenRow]
  <2>1. token' = [token EXCEPT ![t].over = TRUE] /\ token \in [Confirm -> TokenRow]
    BY DEF TokenExpires, ConfirmInv, ConfirmTyped
  <2>2. [token[t] EXCEPT !.over = TRUE] \in TokenRow
    BY <2>1 DEF TokenRow
  <2> QED
    BY <2>1, <2>2
<1>2. /\ confirm' = [confirm EXCEPT ![t] = confirm[t]]
      /\ confirm[t] \in [at : At, ref : Nat]
  BY DEF TokenExpires, ConfirmInv, ConfirmTyped
<1>3. /\ confirm[t].at = "PENDING" => confirm[t].ref \in DOMAIN approval
      /\ confirm[t].at \in {"APPROVED", "WRITING"} => Through(t)
  BY DEF ConfirmInv, Through
<1> QED
  BY <1>1, <1>2, <1>3, ConfirmMoves DEF TokenExpires

-----------------------------------------------------------------------------
(* The steps that write an approval.                                       *)

\* A pending one is inserted, or the one in the way taken.
LEMMA InsertInv == ASSUME ConfirmInv, NEW t \in Confirm, Insert(t) PROVE ConfirmInv'
<1>1. CASE InTheWay = {}
  <2> DEFINE row == [status |-> "PENDING", over |-> FALSE]
             new == [at |-> "PENDING", ref |-> Len(approval) + 1]
  <2>1. approval' = Append(approval, row) /\ confirm' = [confirm EXCEPT ![t] = new]
    BY <1>1 DEF Insert, Refers
  <2>2. approval \in Seq(ApprovalRow) /\ row \in ApprovalRow
    BY DEF ConfirmInv, ConfirmTyped, ApprovalRow
  <2>3. /\ approval' \in Seq(ApprovalRow) /\ Len(approval') = Len(approval) + 1
        /\ \A i \in 1..Len(approval) : approval'[i] = approval[i]
    BY <2>1, <2>2, AppendProperties
  <2>4. DOMAIN approval' = 1..(Len(approval) + 1) /\ DOMAIN approval = 1..Len(approval)
        /\ Len(approval) \in Nat
    BY <2>3, ApprovalsOf, LenProperties
  <2>5. DOMAIN approval \subseteq DOMAIN approval' /\ Len(approval) + 1 \in DOMAIN approval'
    BY <2>4
  <2>6. OpenApprovals' \subseteq {Len(approval) + 1}
    BY <1>1, <2>3, <2>4 DEF OpenApprovals, InTheWay, IsOpen
  <2>7. new \in [at : At, ref : Nat]
    BY <2>4 DEF At
  <2>8. UNCHANGED <<token, written>>
    BY DEF Insert
  <2>9. \A i \in DOMAIN approval : approval'[i] = approval[i]
    BY <2>3, <2>4
  <2>10. \A i, j \in OpenApprovals' : i = j
    BY <2>6
  <2>11. new.at = "PENDING" /\ new.ref \in DOMAIN approval'
    BY <2>5
  <2> HIDE DEF row, new
  <2> QED
    BY <2>1, <2>3, <2>5, <2>7, <2>8, <2>9, <2>10, <2>11, ApprovalsInv
<1>2. CASE InTheWay # {}
  BY <1>2, TakeOpenInv DEF Insert, InTheWay
<1> QED
  BY <1>1, <1>2

\* approve lets one confirmation through, or expires the row.
LEMMA ApproveInv == ASSUME ConfirmInv, NEW t \in Confirm, Approve(t) PROVE ConfirmInv'
<1> DEFINE i == confirm[t].ref
<1>1. CASE Approvable(i)
  <2> DEFINE status == IF approval[i].over THEN "EXPIRED" ELSE "APPROVED"
             at == IF approval[i].over THEN "OUT" ELSE "APPROVED"
             new == [at |-> at, ref |-> i]
  <2>1. /\ approval' = [approval EXCEPT ![i].status = status] /\ Goto(t, at)
        /\ confirm[t].at = "PENDING" /\ UNCHANGED <<token, written>>
    BY <1>1 DEF Approve
  <2>2. /\ i \in DOMAIN approval /\ approval \in Seq(ApprovalRow)
        /\ approval[i] \in ApprovalRow /\ approval[i].status = "PENDING"
    BY <2>1, <1>1, ApprovalsOf DEF ConfirmInv, ConfirmTyped, Approvable
  <2>3. confirm' = [confirm EXCEPT ![t] = new] /\ new \in [at : At, ref : Nat]
    BY <2>1, GotoMoves DEF At, ConfirmInv, ConfirmTyped
  <2>4. [approval[i] EXCEPT !.status = status] \in ApprovalRow
    BY <2>2 DEF ApprovalRow
  <2>5. approval' = [approval EXCEPT ![i] = [approval[i] EXCEPT !.status = status]]
    BY <2>1, <2>2
  <2>6. /\ approval' \in Seq(ApprovalRow) /\ DOMAIN approval' = DOMAIN approval
        /\ approval'[i].status = status
        /\ \A j \in DOMAIN approval : j # i => approval'[j] = approval[j]
    <3>1. approval' \in Seq(ApprovalRow)
      BY <2>2, <2>4, <2>5, ExceptSeq
    <3> QED
      BY <3>1, <2>2, <2>5 DEF ApprovalRow
  <2>7. \A u \in Confirm : Through(u) => confirm[u].ref # i
    BY <2>2 DEF ConfirmInv
  <2>8. \A j \in OpenApprovals' : j \in OpenApprovals
    BY <2>2, <2>6 DEF OpenApprovals, IsOpen
  <2>9. \A j, k \in OpenApprovals' : j = k
    BY <2>8 DEF ConfirmInv
  <2>10. \A j \in DOMAIN approval :
            approval[j].status \in {"APPROVED", "CONSUMED"} => approval'[j].status = approval[j].status
    BY <2>2, <2>6
  <2>11. /\ new.at # "PENDING"
         /\ new.at \in {"APPROVED", "WRITING"} =>
               /\ new.ref \in DOMAIN approval' /\ approval'[new.ref].status = "APPROVED"
               /\ \A u \in Confirm \ {t} : Through(u) => confirm[u].ref # new.ref
    BY <2>2, <2>6, <2>7
  <2> HIDE DEF new
  <2> QED
    BY <2>1, <2>3, <2>6, <2>9, <2>10, <2>11, ApprovalsInv
<1>2. CASE ~Approvable(i)
  BY <1>2, ConfirmLeaves DEF Approve
<1> QED
  BY <1>1, <1>2

\* An approval runs out.
LEMMA ApprovalExpiresInv ==
  ASSUME ConfirmInv, NEW i \in DOMAIN approval, ApprovalExpires(i) PROVE ConfirmInv'
<1>1. approval \in Seq(ApprovalRow) /\ approval[i] \in ApprovalRow
  BY ApprovalsOf DEF ConfirmInv, ConfirmTyped
<1>2. [approval[i] EXCEPT !.over = TRUE] \in ApprovalRow
  BY <1>1 DEF ApprovalRow
<1>3. approval' = [approval EXCEPT ![i] = [approval[i] EXCEPT !.over = TRUE]]
  BY DEF ApprovalExpires
<1>4. /\ approval' \in Seq(ApprovalRow) /\ DOMAIN approval' = DOMAIN approval
      /\ \A j \in DOMAIN approval : approval'[j].status = approval[j].status
  <2>1. approval' \in Seq(ApprovalRow)
    BY <1>1, <1>2, <1>3, ExceptSeq
  <2> QED
    BY <2>1, <1>1, <1>3 DEF ApprovalRow
<1>5. OpenApprovals' = OpenApprovals
  BY <1>4 DEF OpenApprovals, IsOpen
<1>6. ConfirmTyped'
  BY <1>4 DEF ConfirmInv, ConfirmTyped, ApprovalExpires
<1>7. \A t \in Confirm : Through(t)' = Through(t)
  BY DEF Through, ApprovalExpires
<1>8. UNCHANGED <<token, confirm, written>>
  BY DEF ApprovalExpires
<1> QED
  <2>1. ASSUME NEW t \in Confirm
        PROVE  /\ confirm[t].at \in {"PENDING", "APPROVED", "WRITING"} => confirm[t].ref \in DOMAIN approval'
               /\ Through(t) => approval'[confirm[t].ref].status = "APPROVED"
    <3>1. /\ confirm[t].at \in {"PENDING", "APPROVED", "WRITING"} => confirm[t].ref \in DOMAIN approval
          /\ Through(t) => approval[confirm[t].ref].status = "APPROVED"
      BY DEF ConfirmInv
    <3>2. Through(t) => confirm[t].ref \in DOMAIN approval
      BY <3>1 DEF Through
    <3> QED
      BY <3>1, <3>2, <1>4
  <2>2. \A n \in DOMAIN written :
           written[n] \in DOMAIN approval' /\ approval'[written[n]].status = "CONSUMED"
    BY <1>4 DEF ConfirmInv
  <2> QED
    BY <2>1, <2>2, <1>5, <1>6, <1>7, <1>8 DEF ConfirmInv

\* The write takes its approval out of everybody's reach.
LEMMA CommitInv == ASSUME ConfirmInv, NEW t \in Confirm, CommitWrite(t) PROVE ConfirmInv'
<1> DEFINE i == confirm[t].ref
           new == [at |-> "OUT", ref |-> i]
<1>1. Through(t) /\ confirm[t].at = "WRITING"
  BY DEF CommitWrite, Through
<1>2. /\ i \in DOMAIN approval /\ approval \in Seq(ApprovalRow)
      /\ approval[i] \in ApprovalRow /\ approval[i].status = "APPROVED"
  BY <1>1, ApprovalsOf DEF ConfirmInv, ConfirmTyped
<1>3. confirm' = [confirm EXCEPT ![t] = new] /\ new \in [at : At, ref : Nat]
  BY GotoMoves DEF At, ConfirmInv, ConfirmTyped, CommitWrite
<1>4. /\ confirm'[t].at = "OUT" /\ \A u \in Confirm \ {t} : confirm'[u] = confirm[u]
      /\ confirm' \in [Confirm -> [at : At, ref : Nat]]
  BY <1>3 DEF ConfirmInv, ConfirmTyped
<1>5. /\ approval' \in Seq(ApprovalRow) /\ DOMAIN approval' = DOMAIN approval
      /\ approval'[i].status = "CONSUMED"
      /\ \A j \in DOMAIN approval : j # i => approval'[j] = approval[j]
  <2>1. [approval[i] EXCEPT !.status = "CONSUMED"] \in ApprovalRow
    BY <1>2 DEF ApprovalRow
  <2>2. approval' = [approval EXCEPT ![i] = [approval[i] EXCEPT !.status = "CONSUMED"]]
    BY <1>2 DEF CommitWrite
  <2>3. approval' \in Seq(ApprovalRow)
    BY <1>2, <2>1, <2>2, ExceptSeq
  <2> QED
    BY <2>2, <2>3, <1>2 DEF ApprovalRow
<1>6. /\ written \in Seq(Nat) /\ written' = Append(written, i) /\ i \in Nat
  BY <1>2, ApprovalsOf DEF CommitWrite, ConfirmInv, ConfirmTyped
<1>7. /\ written' \in Seq(Nat) /\ DOMAIN written = 1..Len(written) /\ Len(written) \in Nat
      /\ DOMAIN written' = 1..(Len(written) + 1)
      /\ written'[Len(written) + 1] = i
      /\ \A n \in 1..Len(written) : written'[n] = written[n]
  BY <1>6, AppendProperties, LenProperties
<1>8. ConfirmTyped'
  <2>1. token' \in [Confirm -> TokenRow]
    <3>1. token' = [token EXCEPT ![t].status = "CONSUMED"] /\ token \in [Confirm -> TokenRow]
      BY DEF ConfirmInv, ConfirmTyped, CommitWrite
    <3>2. [token[t] EXCEPT !.status = "CONSUMED"] \in TokenRow
      BY <3>1 DEF TokenRow
    <3> QED
      BY <3>1, <3>2
  <2> QED
    BY <2>1, <1>4, <1>5, <1>7 DEF ConfirmTyped
<1>9. \A j, k \in OpenApprovals' : j = k
  <2>1. \A j \in OpenApprovals' : j \in OpenApprovals
    BY <1>2, <1>5 DEF OpenApprovals, IsOpen
  <2> QED
    BY <2>1 DEF ConfirmInv
<1>10. ASSUME NEW u \in Confirm
       PROVE  /\ confirm'[u].at \in {"PENDING", "APPROVED", "WRITING"} => confirm'[u].ref \in DOMAIN approval'
              /\ Through(u)' => u # t /\ Through(u) /\ approval'[confirm'[u].ref].status = "APPROVED"
  <2>1. CASE u = t
    BY <2>1, <1>4 DEF Through
  <2>2. CASE u # t
    <3>1. confirm'[u] = confirm[u]
      BY <2>2, <1>4
    <3>2. /\ confirm[u].at \in {"PENDING", "APPROVED", "WRITING"} => confirm[u].ref \in DOMAIN approval
          /\ Through(u) => approval[confirm[u].ref].status = "APPROVED" /\ confirm[u].ref # i
      BY <2>2, <1>1 DEF ConfirmInv
    <3>3. Through(u) => confirm[u].ref \in DOMAIN approval
      BY <3>2 DEF Through
    <3> QED
      BY <2>2, <3>1, <3>2, <3>3, <1>5 DEF Through
  <2> QED
    BY <2>1, <2>2
<1>11. ASSUME NEW u \in Confirm, NEW v \in Confirm,
              Through(u)', Through(v)', confirm'[u].ref = confirm'[v].ref
       PROVE  u = v
  BY <1>4, <1>10, <1>11 DEF ConfirmInv
<1>12. \A n \in DOMAIN written : written[n] # i
  BY <1>2 DEF ConfirmInv
<1>13. ASSUME NEW n \in DOMAIN written'
       PROVE  written'[n] \in DOMAIN approval' /\ approval'[written'[n]].status = "CONSUMED"
  <2>1. CASE n = Len(written) + 1
    BY <2>1, <1>2, <1>5, <1>7
  <2>2. CASE n # Len(written) + 1
    <3>1. n \in DOMAIN written /\ written'[n] = written[n]
      BY <2>2, <1>7
    <3>2. written[n] \in DOMAIN approval /\ approval[written[n]].status = "CONSUMED"
      BY <3>1 DEF ConfirmInv
    <3> QED
      BY <3>1, <3>2, <1>5
  <2> QED
    BY <2>1, <2>2
<1>14. ASSUME NEW m \in DOMAIN written', NEW n \in DOMAIN written', written'[m] = written'[n]
       PROVE  m = n
  <2>1. CASE m = Len(written) + 1 \/ n = Len(written) + 1
    BY <2>1, <1>7, <1>12, <1>14
  <2>2. CASE m # Len(written) + 1 /\ n # Len(written) + 1
    <3>1. m \in DOMAIN written /\ n \in DOMAIN written /\ written[m] = written[n]
      BY <2>2, <1>7, <1>14
    <3> QED
      BY <3>1 DEF ConfirmInv
  <2> QED
    BY <2>1, <2>2
<1>15. \A u, v \in Confirm : Through(u)' /\ Through(v)' /\ confirm'[u].ref = confirm'[v].ref => u = v
  BY <1>11
<1>16. \A u \in Confirm :
          /\ confirm'[u].at \in {"PENDING", "APPROVED", "WRITING"} => confirm'[u].ref \in DOMAIN approval'
          /\ Through(u)' => approval'[confirm'[u].ref].status = "APPROVED"
  BY <1>10
<1>17. \A m, n \in DOMAIN written' : written'[m] = written'[n] => m = n
  BY <1>14
<1>18. \A n \in DOMAIN written' :
          written'[n] \in DOMAIN approval' /\ approval'[written'[n]].status = "CONSUMED"
  BY <1>13
<1> QED
  BY <1>8, <1>9, <1>15, <1>16, <1>17, <1>18 DEF ConfirmInv

-----------------------------------------------------------------------------
\* Every step keeps the invariant: an approval is approved for one
\* confirmation, and consumed with its one write.
THEOREM ConfirmationInvariant == ConfirmSpec => []ConfirmInv
<1>1. ASSUME ConfirmInv, [ConfirmNext]_confirmVars PROVE ConfirmInv'
  <2>1. CASE UNCHANGED confirmVars
    BY <1>1, <2>1 DEF confirmVars, ConfirmInv, ConfirmTyped, Through, OpenApprovals, IsOpen
  <2>2. ASSUME NEW t \in Confirm, FindOpen(t) PROVE ConfirmInv'
    BY <1>1, <2>2, ConfirmLeaves, TakeOpenInv DEF FindOpen
  <2>3. ASSUME NEW t \in Confirm, Fail(t) PROVE ConfirmInv'
    BY <1>1, <2>3, ConfirmLeaves DEF Fail
  <2>4. ASSUME NEW t \in Confirm,
               \/ IssueToken(t) \/ Insert(t) \/ Approve(t)
               \/ Consume(t) \/ CommitWrite(t) \/ TokenExpires(t)
        PROVE  ConfirmInv'
    BY <1>1, <2>4, IssueTokenInv, InsertInv, ApproveInv, TokenConsumeInv, CommitInv, TokenExpiresInv
  <2>5. ASSUME NEW i \in DOMAIN approval, ApprovalExpires(i) PROVE ConfirmInv'
    BY <1>1, <2>5, ApprovalExpiresInv
  <2> QED
    BY <1>1, <2>1, <2>2, <2>3, <2>4, <2>5 DEF ConfirmNext
<1> QED
  BY <1>1, ConfirmInitInv, PTL DEF ConfirmSpec

\* However the confirmations of one action overlap, they have one approval
\* open at most and write once under each (consume of approval_service.py).
THEOREM OneWrite == ServicesSpec => []OneWritePerApproval
<1>1. ServicesInit => ConfirmInit
  BY DEF ServicesInit
<1>2. [ServicesNext]_servicesVars => [ConfirmNext]_confirmVars
  BY DEF ServicesNext, servicesVars
<1>3. ConfirmInv => OneWritePerApproval
  <2> SUFFICES ASSUME ConfirmInv PROVE OneWritePerApproval
    OBVIOUS
  <2>1. CASE OpenApprovals = {}
    <3>1. Cardinality(OpenApprovals) = 0
      BY <2>1, FS_EmptySet
    <3> QED
      BY <3>1 DEF ConfirmInv, OneWritePerApproval
  <2>2. CASE OpenApprovals # {}
    <3>1. PICK i : OpenApprovals = {i}
      BY <2>2 DEF ConfirmInv
    <3>2. Cardinality(OpenApprovals) = 1
      BY <3>1, FS_Singleton
    <3> QED
      BY <3>2 DEF ConfirmInv, OneWritePerApproval
  <2> QED
    BY <2>1, <2>2
<1> QED
  BY <1>1, <1>2, <1>3, ConfirmationInvariant, PTL DEF ServicesSpec, ConfirmSpec

=============================================================================
