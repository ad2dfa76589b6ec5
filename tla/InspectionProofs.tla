-------------------------- MODULE InspectionProofs --------------------------
(***************************************************************************)
(* The inspection context keeps its promises for any number of requests,   *)
(* tasks, events and users.                                                *)
(*                                                                         *)
(* The argument, for both services: a request works on the row it has read *)
(* and is saved over the version it has read.  Versions grow with every    *)
(* change, so that a copy of the present version is the present row, and   *)
(* what was checked on it holds of the row that is written.  What is then  *)
(* left to show is about one row and its timeline: an action that may be   *)
(* done keeps them in agreement.                                           *)
(***************************************************************************)
EXTENDS Inspection, SequenceTheorems, FiniteSetTheorems, TLAPS

-----------------------------------------------------------------------------
(* Appending to a sequence.                                                *)

\* One more entry.
LEMMA Appended ==
  ASSUME NEW S, NEW s \in Seq(S), NEW e \in S
  PROVE  /\ s \o <<e>> \in Seq(S) /\ Len(s \o <<e>>) = Len(s) + 1
         /\ \A i \in 1..Len(s) : (s \o <<e>>)[i] = s[i]
         /\ (s \o <<e>>)[Len(s) + 1] = e
<1>1. <<e>> \in Seq(S) /\ Len(<<e>>) = 1 /\ <<e>>[1] = e
  OBVIOUS
<1>2. Len(s) \in Nat
  BY LenProperties
<1> QED
  BY <1>1, <1>2, ConcatProperties

\* The same for Append.
LEMMA AppendedOne ==
  ASSUME NEW S, NEW s \in Seq(S), NEW e \in S
  PROVE  /\ Append(s, e) \in Seq(S) /\ Len(Append(s, e)) = Len(s) + 1
         /\ \A i \in 1..Len(s) : Append(s, e)[i] = s[i]
         /\ Append(s, e)[Len(s) + 1] = e
  BY LenProperties

\* Two at once.
LEMMA AppendedTwo ==
  ASSUME NEW S, NEW s \in Seq(S), NEW d \in S, NEW e \in S
  PROVE  /\ s \o <<d, e>> \in Seq(S) /\ Len(s \o <<d, e>>) = Len(s) + 2
         /\ \A i \in 1..Len(s) : (s \o <<d, e>>)[i] = s[i]
         /\ (s \o <<d, e>>)[Len(s) + 1] = d /\ (s \o <<d, e>>)[Len(s) + 2] = e
<1>1. /\ <<d, e>> \in Seq(S) /\ Len(<<d, e>>) = 2
      /\ <<d, e>>[1] = d /\ <<d, e>>[2] = e
  OBVIOUS
<1>2. Len(s) \in Nat
  BY LenProperties
<1> QED
  BY <1>1, <1>2, ConcatProperties

-----------------------------------------------------------------------------
(* Tasks: one row and its timeline.                                        *)

\* The actions by name.
LEMMA ActionsNamed ==
    /\ TaskAction = {"ASSIGN", "START", "SUBMIT_RECORDS", "COMPLETE", "ADD_RECORD"}
    /\ Additions = {"ADD_RECORD", "AI_SUGGESTION", "AI_CONFIRM"}
    /\ Action = {"ASSIGN", "START", "SUBMIT_RECORDS", "COMPLETE", "ADD_RECORD",
                 "AI_SUGGESTION", "AI_CONFIRM"}
<1>1. {m[2] : m \in TRANSITIONS} = {"ASSIGN", "START", "SUBMIT_RECORDS", "COMPLETE"}
  BY DEF TRANSITIONS
<1> QED
  BY <1>1 DEF TaskAction, Additions, Action

\* What an action adds to a timeline.
Extends(line, longer, action, u) ==
    /\ longer \in Seq(Entry)
    /\ Len(longer) = Len(line) + (IF action = "SUBMIT_RECORDS" THEN 2 ELSE 1)
    /\ \A i \in 1..Len(line) : longer[i] = line[i]
    /\ longer[Len(longer)].by = u
    /\ \A a : Done(longer, a) =
                 Done(line, a) \cup (IF a = action /\ a # "ADD_RECORD" THEN {Len(longer)} ELSE {})

\* What Entries adds is that.
LEMMA EntriesExtend ==
  ASSUME NEW line \in Seq(Entry), NEW action \in Action \cup {"CREATE"}, NEW u \in User
  PROVE  Extends(line, line \o Entries(action, u), action, u)
<1> DEFINE r == [type |-> "RECORD", action |-> action, by |-> u]
           s == [type |-> "STATUS", action |-> action, by |-> u]
           n == Len(line)
<1>1. /\ r \in Entry /\ r.type = "RECORD" /\ r.action = action /\ r.by = u
      /\ s \in Entry /\ s.type = "STATUS" /\ s.action = action /\ s.by = u
  BY DEF Entry
<1>2. n \in Nat /\ DOMAIN line = 1..n
  BY LenProperties
<1>3. Entries(action, u) = IF action = "SUBMIT_RECORDS" THEN <<r, s>>
                           ELSE IF action = "ADD_RECORD" THEN <<r>> ELSE <<s>>
  BY DEF Entries
<1> HIDE DEF r, s
<1>4. CASE action = "SUBMIT_RECORDS"
  <2> DEFINE longer == line \o <<r, s>>
  <2>1. /\ longer \in Seq(Entry) /\ Len(longer) = n + 2
        /\ \A i \in 1..n : longer[i] = line[i]
        /\ longer[n + 1] = r /\ longer[n + 2] = s
    BY <1>1, AppendedTwo
  <2>2. DOMAIN longer = 1..(n + 2)
    BY <2>1, LenProperties
  <2> HIDE DEF longer, n
  <2>3. ASSUME NEW a
        PROVE  Done(longer, a) = Done(line, a) \cup (IF a = action THEN {n + 2} ELSE {})
    <3>1. DOMAIN longer = (1..n) \cup {n + 1} \cup {n + 2}
      BY <1>2, <2>2
    <3> QED
      BY <1>1, <1>2, <2>1, <3>1 DEF Done
  <2>4. Entries(action, u) = <<r, s>>
    BY <1>3, <1>4
  <2> QED
    BY <1>1, <1>4, <2>1, <2>3, <2>4 DEF Extends, n, longer
<1>5. ASSUME action # "SUBMIT_RECORDS", NEW e \in {r, s},
             e = IF action = "ADD_RECORD" THEN r ELSE s
      PROVE  Extends(line, line \o <<e>>, action, u)
  <2> DEFINE longer == line \o <<e>>
  <2>1. /\ longer \in Seq(Entry) /\ Len(longer) = n + 1
        /\ \A i \in 1..n : longer[i] = line[i]
        /\ longer[n + 1] = e
    BY <1>1, <1>5, Appended
  <2>2. DOMAIN longer = 1..(n + 1)
    BY <2>1, LenProperties
  <2> HIDE DEF longer, n
  <2>3. ASSUME NEW a
        PROVE  Done(longer, a) =
                  Done(line, a) \cup (IF a = action /\ a # "ADD_RECORD" THEN {n + 1} ELSE {})
    <3>1. DOMAIN longer = (1..n) \cup {n + 1}
      BY <1>2, <2>2
    <3> QED
      BY <1>1, <1>2, <1>5, <2>1, <3>1 DEF Done
  <2> QED
    BY <1>1, <1>5, <2>1, <2>3 DEF Extends, n, longer
<1> QED
  BY <1>3, <1>4, <1>5

\* Where an action is logged is within the timeline; how often, counts up.
LEMMA DoneCounts ==
  ASSUME NEW line \in Seq(Entry), NEW longer, NEW action, NEW u,
         Extends(line, longer, action, u)
  PROVE  \A a : /\ Done(line, a) \subseteq 1..Len(line)
                /\ Len(longer) \notin Done(line, a)
                /\ Cardinality(Done(line, a)) \in Nat
                /\ Cardinality(Done(longer, a)) = Cardinality(Done(line, a))
                      + (IF a = action /\ a # "ADD_RECORD" THEN 1 ELSE 0)
<1> SUFFICES ASSUME NEW a
             PROVE  /\ Done(line, a) \subseteq 1..Len(line)
                    /\ Len(longer) \notin Done(line, a)
                    /\ Cardinality(Done(line, a)) \in Nat
                    /\ Cardinality(Done(longer, a)) = Cardinality(Done(line, a))
                          + (IF a = action /\ a # "ADD_RECORD" THEN 1 ELSE 0)
  OBVIOUS
<1>1. Len(line) \in Nat /\ Done(line, a) \subseteq 1..Len(line)
  BY LenProperties DEF Done
<1>2. IsFiniteSet(1..Len(line))
  BY <1>1, FS_Interval
<1>3. IsFiniteSet(Done(line, a))
  BY <1>1, <1>2, FS_Subset
<1>4. Len(longer) \notin Done(line, a)
  BY <1>1 DEF Extends
<1>5. Cardinality(Done(line, a)) \in Nat
  BY <1>3, FS_CardinalityType
<1>6. Cardinality(Done(line, a) \cup {Len(longer)}) = Cardinality(Done(line, a)) + 1
  BY <1>3, <1>4, FS_AddElement
<1>7. Done(longer, a) =
         Done(line, a) \cup (IF a = action /\ a # "ADD_RECORD" THEN {Len(longer)} ELSE {})
  BY DEF Extends
<1>8. CASE a = action /\ a # "ADD_RECORD"
  BY <1>1, <1>4, <1>5, <1>6, <1>7, <1>8
<1>9. CASE ~(a = action /\ a # "ADD_RECORD")
  <2>1. Done(longer, a) = Done(line, a)
    BY <1>7, <1>9
  <2> QED
    BY <1>1, <1>4, <1>5, <1>9, <2>1
<1> QED
  BY <1>8, <1>9

\* A row that is new, or that no one has been assigned, has nothing done to it.
RowInv(row, line) ==
    /\ Agrees(row, line)
    /\ row.status \in {"NONE", "PLANNED", "ASSIGNED"} =>
           Done(line, "START") = {} /\ Done(line, "SUBMIT_RECORDS") = {}

\* Where transitions lead, and by which actions.
LEMMA TransitionsTyped ==
    \A m \in TRANSITIONS : /\ m = <<m[1], m[2], m[3]>>
                           /\ m[1] \in Status \ {"NONE"} /\ m[3] \in Status \ {"NONE", "PLANNED"}
                           /\ m[2] \in {"ASSIGN", "START", "SUBMIT_RECORDS", "COMPLETE"}
  BY DEF TRANSITIONS, Status

\* What an action makes of a row, field by field.
Effect(row, action, s, new) ==
    /\ new \in Row
    /\ new.version = row.version + 1
    /\ action \notin Additions => <<row.status, action, new.status>> \in TRANSITIONS
    /\ action \in Additions => new.status = row.status
    /\ new.assignee = IF action = "ASSIGN" THEN s ELSE row.assignee
    /\ new.sugg = IF action = "AI_SUGGESTION" THEN Append(row.sugg, TRUE)
                  ELSE IF action = "AI_CONFIRM" THEN [i \in DOMAIN row.sugg |-> FALSE]
                  ELSE row.sugg
    /\ action = "AI_SUGGESTION" => new.pending
    /\ action = "AI_CONFIRM" => ~new.pending
    /\ action \notin {"AI_SUGGESTION", "AI_CONFIRM"} => new.pending = row.pending
    /\ new.plan = row.plan /\ new.before = row.before /\ new.by = row.by /\ new.key = row.key

\* A row with other values in the fields that actions change.
With(row, status, assignee, sugg, pending) ==
    [row EXCEPT !.status = status, !.assignee = assignee, !.version = row.version + 1,
                !.sugg = sugg, !.pending = pending]

\* What it is, field by field.
LEMMA WithDoes ==
  ASSUME NEW row \in Row, NEW status \in Status, NEW assignee \in Staff \cup {Nobody},
         NEW sugg \in Seq(BOOLEAN), NEW pending \in BOOLEAN
  PROVE  LET new == With(row, status, assignee, sugg, pending) IN
         /\ new \in Row
         /\ new.version = row.version + 1 /\ new.status = status /\ new.assignee = assignee
         /\ new.sugg = sugg /\ new.pending = pending
         /\ new.plan = row.plan /\ new.before = row.before /\ new.by = row.by /\ new.key = row.key
<1> DEFINE new == With(row, status, assignee, sugg, pending)
<1>1. row.version + 1 \in Nat
  BY DEF Row
<1>2. new.version = row.version + 1 /\ new.status = status /\ new.assignee = assignee
  BY DEF Row, With
<1>3. new.sugg = sugg
  BY DEF Row, With
<1>4. new.pending = pending
  BY Zenon DEF Row, With
<1>5. new.plan = row.plan /\ new.before = row.before /\ new.by = row.by /\ new.key = row.key
  BY DEF Row, With
<1>6. new \in Row
  BY <1>1 DEF Row, With
<1> QED
  BY <1>2, <1>3, <1>4, <1>5, <1>6

\* What an action that may be done makes of a row.
LEMMA ChangedDoes ==
  ASSUME NEW row \in Row, NEW action \in Action, NEW s \in Staff \cup {Nobody}, NEW u,
         May(u, row, action)
  PROVE  Effect(row, action, s, Changed(row, action, s))
<1> DEFINE new == Changed(row, action, s)
           move == CHOOSE m \in TRANSITIONS : m[1] = row.status /\ m[2] = action
           status == IF action \in Additions THEN row.status ELSE move[3]
           sugg == CASE action = "AI_SUGGESTION" -> Append(row.sugg, TRUE)
                     [] action = "AI_CONFIRM" -> [i \in DOMAIN row.sugg |-> FALSE]
                     [] OTHER -> row.sugg
           pending == IF action = "AI_SUGGESTION" THEN TRUE
                      ELSE action # "AI_CONFIRM" /\ row.pending
           assignee == IF action = "ASSIGN" THEN s ELSE row.assignee
<1>1. action \notin Additions => move \in TRANSITIONS /\ move[1] = row.status /\ move[2] = action
  <2> SUFFICES ASSUME action \notin Additions
               PROVE  \E m \in TRANSITIONS : m[1] = row.status /\ m[2] = action
    OBVIOUS
  <2> QED
    BY ActionsNamed DEF May
<1>2. new = With(row, status, assignee, sugg, pending)
  BY DEF Changed, With
<1>3. action \notin Additions => <<row.status, action, move[3]>> \in TRANSITIONS
  BY <1>1, TransitionsTyped
<1> HIDE DEF move
<1>4. status \in Status
  BY <1>3, TransitionsTyped DEF Row, TRANSITIONS, Status
<1>5. row.sugg \in Seq(BOOLEAN) /\ row.pending \in BOOLEAN
  BY DEF Row
<1>6. sugg \in Seq(BOOLEAN)
  <2>1. [i \in DOMAIN row.sugg |-> FALSE] \in Seq(BOOLEAN)
    <3>1. DOMAIN row.sugg = 1..Len(row.sugg) /\ Len(row.sugg) \in Nat
      BY <1>5, LenProperties
    <3>2. [i \in 1..Len(row.sugg) |-> FALSE] \in [1..Len(row.sugg) -> BOOLEAN]
      OBVIOUS
    <3> QED
      BY <3>1, <3>2, SeqDef
  <2>2. Append(row.sugg, TRUE) \in Seq(BOOLEAN)
    BY <1>5
  <2> QED
    BY <1>5, <2>1, <2>2
<1>7. pending \in BOOLEAN
  BY <1>5
<1>8. assignee \in Staff \cup {Nobody}
  BY DEF Row
<1>9. sugg = IF action = "AI_SUGGESTION" THEN Append(row.sugg, TRUE)
             ELSE IF action = "AI_CONFIRM" THEN [i \in DOMAIN row.sugg |-> FALSE]
             ELSE row.sugg
  OBVIOUS
<1>10. /\ action = "AI_SUGGESTION" => pending = TRUE
       /\ action = "AI_CONFIRM" => pending = FALSE
       /\ action \notin {"AI_SUGGESTION", "AI_CONFIRM"} => pending = row.pending
  BY <1>5
<1>11. /\ action \in Additions => status = row.status
       /\ action \notin Additions => status = move[3]
       /\ assignee = IF action = "ASSIGN" THEN s ELSE row.assignee
  OBVIOUS
<1> HIDE DEF new, status, sugg, pending, assignee
<1>12. /\ new \in Row /\ new.version = row.version + 1 /\ new.status = status
       /\ new.assignee = assignee /\ new.sugg = sugg /\ new.pending = pending
       /\ new.plan = row.plan /\ new.before = row.before /\ new.by = row.by /\ new.key = row.key
  BY <1>2, <1>4, <1>6, <1>7, <1>8, WithDoes
<1> QED
  BY <1>3, <1>9, <1>10, <1>11, <1>12 DEF Effect, new

\* An action that may be done keeps a row and its timeline in agreement.
LEMMA ChangedAgrees ==
  ASSUME NEW row \in Row, NEW line \in Seq(Entry), RowInv(row, line),
         NEW action \in Action, NEW s \in Staff \cup {Nobody}, NEW u \in User,
         May(u, row, action)
  PROVE  RowInv(Changed(row, action, s), line \o Entries(action, u))
<1> DEFINE new == Changed(row, action, s)
           longer == line \o Entries(action, u)
<1>1. Extends(line, longer, action, u)
  BY EntriesExtend
<1>2. Effect(row, action, s, new)
  BY ChangedDoes
<1> HIDE DEF new, longer
<1>3. \A a : /\ Done(line, a) \subseteq 1..Len(line)
             /\ Len(longer) \notin Done(line, a)
             /\ Cardinality(Done(line, a)) \in Nat
             /\ Cardinality(Done(longer, a)) = Cardinality(Done(line, a))
                   + (IF a = action /\ a # "ADD_RECORD" THEN 1 ELSE 0)
  BY <1>1, DoneCounts
<1>4. /\ Len(line) \in Nat /\ row.version \in Nat /\ row.sugg \in Seq(BOOLEAN)
      /\ row.pending \in BOOLEAN
  BY LenProperties DEF Row
<1>5. \A a : Done(longer, a) =
             Done(line, a) \cup (IF a = action /\ a # "ADD_RECORD" THEN {Len(longer)} ELSE {})
  BY <1>1 DEF Extends
<1>6. /\ Len(longer) = Len(line) + (IF action = "SUBMIT_RECORDS" THEN 2 ELSE 1)
      /\ \A i \in 1..Len(line) : longer[i] = line[i]
      /\ longer[Len(longer)].by = u
  BY <1>1 DEF Extends
<1> USE DEF Effect
<1>7. new.version + Cardinality(Done(longer, "SUBMIT_RECORDS")) = Len(longer)
  <2>1. row.version + Cardinality(Done(line, "SUBMIT_RECORDS")) = Len(line)
    BY DEF RowInv, Agrees
  <2>2. Cardinality(Done(longer, "SUBMIT_RECORDS")) = Cardinality(Done(line, "SUBMIT_RECORDS"))
           + (IF action = "SUBMIT_RECORDS" THEN 1 ELSE 0)
    BY <1>3
  <2>3. new.version = row.version + 1 /\ Cardinality(Done(line, "SUBMIT_RECORDS")) \in Nat
    BY <1>2, <1>3
  <2>4. Len(longer) = Len(line) + (IF action = "SUBMIT_RECORDS" THEN 2 ELSE 1)
    BY <1>6
  <2>5. row.version \in Nat /\ Len(line) \in Nat
    BY <1>4
  <2> HIDE DEF Effect
  <2>6. CASE action = "SUBMIT_RECORDS"
    BY <2>1, <2>2, <2>3, <2>4, <2>5, <2>6
  <2>7. CASE action # "SUBMIT_RECORDS"
    BY <2>1, <2>2, <2>3, <2>4, <2>5, <2>7
  <2> QED
    BY <2>6, <2>7
<1>8. Len(new.sugg) = Cardinality(Done(longer, "AI_SUGGESTION"))
  <2>1. Len(row.sugg) = Cardinality(Done(line, "AI_SUGGESTION"))
    BY DEF RowInv, Agrees
  <2>2. Cardinality(Done(longer, "AI_SUGGESTION")) = Cardinality(Done(line, "AI_SUGGESTION"))
           + (IF action = "AI_SUGGESTION" THEN 1 ELSE 0)
    BY <1>3
  <2>3. Len([i \in DOMAIN row.sugg |-> FALSE]) = Len(row.sugg)
    <3>1. DOMAIN row.sugg = 1..Len(row.sugg) /\ Len(row.sugg) \in Nat
      BY <1>4, LenProperties
    <3> QED
      BY <3>1
  <2>4. Len(Append(row.sugg, TRUE)) = Len(row.sugg) + 1
    BY <1>4
  <2> QED
    BY <1>2, <1>3, <2>1, <2>2, <2>3, <2>4
<1>9. new.pending <=> \E i \in DOMAIN new.sugg : new.sugg[i]
  <2>1. row.pending <=> \E i \in DOMAIN row.sugg : row.sugg[i]
    BY DEF RowInv, Agrees
  <2>2. CASE action = "AI_SUGGESTION"
    <3>1. new.pending = TRUE /\ new.sugg = Append(row.sugg, TRUE)
      BY <1>2, <2>2
    <3>2. Append(row.sugg, TRUE)[Len(row.sugg) + 1] = TRUE
      BY <1>4, AppendedOne
    <3>3. Append(row.sugg, TRUE) \in Seq(BOOLEAN) /\ Len(Append(row.sugg, TRUE)) = Len(row.sugg) + 1
      BY <1>4, AppendedOne
    <3>4. Len(row.sugg) + 1 \in DOMAIN Append(row.sugg, TRUE)
      BY <1>4, <3>3, LenProperties
    <3> QED
      BY <3>1, <3>2, <3>4
  <2>3. CASE action = "AI_CONFIRM"
    BY <1>2, <2>3
  <2>4. CASE action # "AI_SUGGESTION" /\ action # "AI_CONFIRM"
    BY <1>2, <2>1, <2>4
  <2> QED
    BY <2>2, <2>3, <2>4
<1>10. new.pending <=> \E i \in Done(longer, "AI_SUGGESTION") :
                          \A j \in Done(longer, "AI_CONFIRM") : j < i
  <2>1. row.pending <=> \E i \in Done(line, "AI_SUGGESTION") :
                           \A j \in Done(line, "AI_CONFIRM") : j < i
    BY DEF RowInv, Agrees
  <2>2. CASE action = "AI_SUGGESTION"
    <3>1. /\ Len(longer) \in Done(longer, "AI_SUGGESTION")
          /\ Done(longer, "AI_CONFIRM") = Done(line, "AI_CONFIRM") /\ new.pending
      BY <1>2, <1>5, <2>2
    <3>2. \A j \in Done(line, "AI_CONFIRM") : j < Len(longer)
      BY <1>3, <1>4, <1>6, <2>2
    <3> QED
      BY <3>1, <3>2
  <2>3. CASE action = "AI_CONFIRM"
    <3>1. /\ Len(longer) \in Done(longer, "AI_CONFIRM")
          /\ Done(longer, "AI_SUGGESTION") = Done(line, "AI_SUGGESTION") /\ ~new.pending
      BY <1>2, <1>5, <2>3
    <3>2. \A i \in Done(line, "AI_SUGGESTION") : ~(Len(longer) < i)
      BY <1>3, <1>4, <1>6, <2>3
    <3> QED
      BY <3>1, <3>2
  <2>4. CASE action # "AI_SUGGESTION" /\ action # "AI_CONFIRM"
    <3>1. /\ Done(longer, "AI_CONFIRM") = Done(line, "AI_CONFIRM")
          /\ Done(longer, "AI_SUGGESTION") = Done(line, "AI_SUGGESTION")
          /\ new.pending = row.pending
      BY <1>2, <1>4, <1>5, <2>4
    <3> QED
      BY <2>1, <3>1
  <2> QED
    BY <2>2, <2>3, <2>4
<1>11. \A i \in Done(longer, "START") \cup Done(longer, "SUBMIT_RECORDS") :
          longer[i].by = new.assignee
  <2>1. CASE action = "ASSIGN"
    <3>1. row.status = "PLANNED"
      BY <1>2, <2>1, ActionsNamed DEF TRANSITIONS
    <3>2. Done(line, "START") = {} /\ Done(line, "SUBMIT_RECORDS") = {}
      BY <3>1 DEF RowInv
    <3> QED
      BY <1>5, <2>1, <3>2
  <2>2. CASE action # "ASSIGN"
    <3>1. \A i \in Done(line, "START") \cup Done(line, "SUBMIT_RECORDS") :
             longer[i].by = row.assignee
      BY <1>3, <1>6 DEF RowInv, Agrees
    <3>2. action \in {"START", "SUBMIT_RECORDS"} => u = row.assignee
      BY DEF May, IsAssignee
    <3> QED
      BY <1>2, <1>5, <1>6, <2>2, <3>1, <3>2
  <2> QED
    BY <2>1, <2>2
<1>12. new.status \in {"NONE", "PLANNED", "ASSIGNED"} =>
          Done(longer, "START") = {} /\ Done(longer, "SUBMIT_RECORDS") = {}
  <2> SUFFICES ASSUME new.status \in {"NONE", "PLANNED", "ASSIGNED"}
               PROVE  Done(longer, "START") = {} /\ Done(longer, "SUBMIT_RECORDS") = {}
    OBVIOUS
  <2>1. row.status \in {"NONE", "PLANNED", "ASSIGNED"} /\ action \notin {"START", "SUBMIT_RECORDS"}
    <3>1. CASE action \in Additions
      BY <1>2, <3>1, ActionsNamed
    <3>2. CASE action \notin Additions
      BY <1>2, <3>2 DEF TRANSITIONS
    <3> QED
      BY <3>1, <3>2
  <2> QED
    BY <1>5, <2>1 DEF RowInv
<1> QED
  BY <1>7, <1>8, <1>9, <1>10, <1>11, <1>12 DEF RowInv, Agrees, new, longer

-----------------------------------------------------------------------------
(* Tasks: the invariant of the transactions.                               *)

\* A plan that clashed with no active task of those that were there before it;
\* a task that is no longer active never is again.
ClearOf(rows, plan, before) ==
    \A j \in before :
        /\ rows[j] # NoRow
        /\ /\ rows[j].status \in {"PLANNED", "ASSIGNED", "IN_PROGRESS"}
           /\ plan.planned > 0 \/ plan.due > 0
           /\ plan.points \cap rows[j].plan.points # {}
           => ~TimeOverlaps(plan, rows[j].plan)

\* A request that creates a task has it for itself, and its checks hold.
CreateChecked(t) ==
    LET q == request[t] IN
    /\ task[q.task] = NoRow
    /\ \A x \in Thread : x # t /\ request[x] # NoRequest => request[x].task # q.task
    /\ q.copy.status = "PLANNED" /\ q.copy.version = 1
    /\ q.copy.sugg = <<>> /\ q.copy.pending = FALSE
    /\ ClearOf(task, q.copy.plan, q.copy.before)

\* Any other has a copy of the present row, or of one before it.
ActionChecked(t) ==
    LET q == request[t]
        row == task[q.task] IN
    /\ row # NoRow
    /\ q.copy.version <= row.version
    /\ q.copy.version = row.version => q.copy = row
    /\ May(q.by, q.copy, q.action)

\* The inductive invariant.
TaskInv ==
    /\ TypeOK
    /\ \A t \in Thread : request[t].action = "CREATE" => CreateChecked(t)
    /\ \A t \in Thread : request[t].action \in Action => ActionChecked(t)
    /\ \A k \in Task : RowInv(task[k], timeline[k])
    /\ \A k \in Task : ClearOf(task, task[k].plan, task[k].before)

\* Requests are told apart by their actions.
LEMMA RequestsApart ==
    /\ "CREATE" \notin Action /\ "NONE" \notin Action
    /\ NoRequest.action = "NONE"
    /\ \A q \in Pending : q.action \in Action \cup {"CREATE"} /\ q # NoRequest
  BY ActionsNamed DEF Pending, NoRequest

\* A row that is not there is typed as any other.
LEMMA NoRowTyped == NoRow \in Row
<1>1. <<>> \in Seq(BOOLEAN)
  OBVIOUS
<1> QED
  BY <1>1 DEF NoRow, Row, Status

\* An empty timeline.
LEMMA NothingDone ==
    \A a : Done(<<>>, a) = {}
  BY DEF Done

\* A row and a timeline to which nothing has been done yet.
LEMMA NewAgrees ==
  ASSUME NEW row \in Row, NEW line \in Seq(Entry), row.version = Len(line),
         row.sugg = <<>>, row.pending = FALSE,
         \A a \in Action : Done(line, a) = {}
  PROVE  RowInv(row, line)
<1>1. /\ Done(line, "SUBMIT_RECORDS") = {} /\ Done(line, "AI_SUGGESTION") = {}
      /\ Done(line, "AI_CONFIRM") = {} /\ Done(line, "START") = {}
  BY ActionsNamed
<1>2. Len(line) \in Nat /\ Cardinality({}) = 0
  BY LenProperties, FS_EmptySet
<1>3. row.version + Cardinality(Done(line, "SUBMIT_RECORDS")) = Len(line)
  <2>1. Cardinality(Done(line, "SUBMIT_RECORDS")) = 0
    BY <1>1, <1>2, Zenon
  <2>2. Len(line) + 0 = Len(line)
    BY <1>2
  <2> QED
    BY <2>1, <2>2, Zenon
<1>4. Len(row.sugg) = Cardinality(Done(line, "AI_SUGGESTION"))
  <2>1. Len(<<>>) = 0
    OBVIOUS
  <2> QED
    BY <1>1, <1>2, <2>1
<1>5. DOMAIN row.sugg = {} /\ ~row.pending
  OBVIOUS
<1> QED
  BY <1>1, <1>3, <1>4, <1>5 DEF RowInv, Agrees

\* The invariant holds at first.
LEMMA TaskInvInit == Init => TaskInv
<1> SUFFICES ASSUME Init PROVE TaskInv
  OBVIOUS
<1>1. TypeOK
  BY NoRowTyped DEF Init, TypeOK
<1>2. \A t \in Thread : request[t].action = "NONE"
  BY RequestsApart DEF Init
<1>3. RowInv(NoRow, <<>>)
  <2>1. NoRow.version = 0 /\ NoRow.sugg = <<>> /\ NoRow.pending = FALSE
    BY DEF NoRow
  <2>2. Len(<<>>) = 0 /\ <<>> \in Seq(Entry)
    BY EmptySeq
  <2> QED
    BY <2>1, <2>2, NothingDone, NoRowTyped, NewAgrees
<1>4. \A k \in Task : RowInv(task[k], timeline[k])
  BY <1>3 DEF Init
<1>5. \A k \in Task : ClearOf(task, task[k].plan, task[k].before)
  BY DEF Init, ClearOf, NoRow
<1> QED
  BY <1>1, <1>2, <1>4, <1>5, RequestsApart DEF TaskInv

\* A request is taken, its checks passed.
Takes(t, q) ==
    /\ request[t] = NoRequest
    /\ request' = [request EXCEPT ![t] = q]
    /\ UNCHANGED <<task, timeline>>

\* It keeps the invariant if they have.
LEMMA TakeKeeps ==
  ASSUME TaskInv, NEW t \in Thread, NEW q \in Pending, Takes(t, q),
         q.action = "CREATE" => CreateChecked(t)',
         q.action \in Action => ActionChecked(t)'
  PROVE  TaskInv'
<1>1. /\ request'[t] = q /\ \A x \in Thread : x # t => request'[x] = request[x]
      /\ task' = task /\ timeline' = timeline
  BY DEF Takes, TaskInv, TypeOK
<1>2. TypeOK'
  BY <1>1 DEF TaskInv, TypeOK, Takes
<1>3. ASSUME NEW x \in Thread, request'[x].action = "CREATE" PROVE CreateChecked(x)'
  <2>1. CASE x = t
    BY <1>1, <1>3, <2>1
  <2>2. CASE x # t
    <3>1. request'[x] = request[x] /\ CreateChecked(x)
      BY <1>1, <1>3, <2>2 DEF TaskInv
    <3>2. q.task # request[x].task
      <4>1. CASE q.action = "CREATE"
        <5>1. request'[x] # NoRequest
          BY <1>3, RequestsApart
        <5> QED
          BY <1>1, <2>2, <3>1, <4>1, <5>1 DEF CreateChecked
      <4>2. CASE q.action \in Action
        BY <1>1, <3>1, <4>2 DEF CreateChecked, ActionChecked
      <4> QED
        BY <4>1, <4>2, RequestsApart
    <3> QED
      BY <1>1, <3>1, <3>2 DEF CreateChecked
  <2> QED
    BY <2>1, <2>2
<1>4. ASSUME NEW x \in Thread, request'[x].action \in Action PROVE ActionChecked(x)'
  <2>1. CASE x = t
    BY <1>1, <1>4, <2>1
  <2>2. CASE x # t
    BY <1>1, <1>4, <2>2 DEF TaskInv, ActionChecked
  <2> QED
    BY <2>1, <2>2
<1> QED
  BY <1>1, <1>2, <1>3, <1>4 DEF TaskInv

\* A request is over, without a trace.
LEMMA AbortKeeps == ASSUME TaskInv, NEW t \in Thread, Abort(t) PROVE TaskInv'
<1>1. /\ request'[t] = NoRequest /\ \A x \in Thread : x # t => request'[x] = request[x]
      /\ task' = task /\ timeline' = timeline
  BY DEF Abort, TaskInv, TypeOK
<1>2. TypeOK'
  BY <1>1 DEF TaskInv, TypeOK, Abort
<1>3. ASSUME NEW x \in Thread, request'[x].action # "NONE"
      PROVE  x # t /\ request'[x] = request[x]
  BY <1>1, <1>3, RequestsApart
<1>4. ASSUME NEW x \in Thread, request'[x].action = "CREATE" PROVE CreateChecked(x)'
  BY <1>1, <1>3, <1>4 DEF TaskInv, CreateChecked
<1>5. ASSUME NEW x \in Thread, request'[x].action \in Action PROVE ActionChecked(x)'
  BY <1>1, <1>3, <1>5, RequestsApart DEF TaskInv, ActionChecked
<1> QED
  BY <1>1, <1>2, <1>4, <1>5 DEF TaskInv

\* A request writes a row that agrees with its timeline, over the version it
\* has read: what the others have checked still holds.
LEMMA WriteKeeps ==
  ASSUME TaskInv, NEW t \in Thread, NEW k \in Task, NEW row \in Row, NEW line \in Seq(Entry),
         task' = [task EXCEPT ![k] = row],
         timeline' = [timeline EXCEPT ![k] = line],
         request' = [request EXCEPT ![t] = NoRequest],
         RowInv(row, line), row.version = task[k].version + 1,
         \A x \in Thread : x # t /\ request[x].action = "CREATE" => request[x].task # k,
         \/ task[k] = NoRow /\ ClearOf(task, row.plan, row.before)
         \/ /\ row.plan = task[k].plan /\ row.before = task[k].before
            /\ row.status \in {"PLANNED", "ASSIGNED", "IN_PROGRESS"} =>
                   task[k].status \in {"PLANNED", "ASSIGNED", "IN_PROGRESS"}
  PROVE  TaskInv'
<1>1. /\ task'[k] = row /\ \A j \in Task : j # k => task'[j] = task[j]
      /\ timeline'[k] = line /\ \A j \in Task : j # k => timeline'[j] = timeline[j]
      /\ request'[t] = NoRequest /\ \A x \in Thread : x # t => request'[x] = request[x]
  BY DEF TaskInv, TypeOK
<1>2. TypeOK'
  BY DEF TaskInv, TypeOK
<1>3. row # NoRow
  BY DEF NoRow, TaskInv, TypeOK, Row
<1>4. ASSUME NEW plan, NEW before \in SUBSET Task, ClearOf(task, plan, before)
      PROVE  ClearOf(task', plan, before)
  <2> SUFFICES ASSUME NEW j \in before
               PROVE  /\ task'[j] # NoRow
                      /\ /\ task'[j].status \in {"PLANNED", "ASSIGNED", "IN_PROGRESS"}
                         /\ plan.planned > 0 \/ plan.due > 0
                         /\ plan.points \cap task'[j].plan.points # {}
                         => ~TimeOverlaps(plan, task'[j].plan)
    BY DEF ClearOf
  <2>1. j \in Task /\ task[j] # NoRow
    BY <1>4 DEF ClearOf
  <2>2. CASE j = k
    BY <1>1, <1>3, <1>4, <2>1, <2>2 DEF ClearOf
  <2>3. CASE j # k
    BY <1>1, <1>4, <2>1, <2>3 DEF ClearOf
  <2> QED
    BY <2>2, <2>3
<1>5. ASSUME NEW x \in Thread, request'[x].action # "NONE"
      PROVE  x # t /\ request'[x] = request[x]
  BY <1>1, <1>5, RequestsApart
<1>6. ASSUME NEW x \in Thread, request'[x].action = "CREATE" PROVE CreateChecked(x)'
  <2>1. /\ x # t /\ request'[x] = request[x] /\ CreateChecked(x)
        /\ request[x].task # k /\ request[x] \in Pending
    BY <1>5, <1>6, RequestsApart DEF TaskInv, TypeOK
  <2>2. request[x].task \in Task /\ request[x].copy.before \in SUBSET Task
    BY <2>1 DEF Pending, Row
  <2>3. ClearOf(task', request[x].copy.plan, request[x].copy.before)
    BY <1>4, <2>1, <2>2 DEF CreateChecked
  <2>4. \A y \in Thread : y # x /\ request'[y] # NoRequest => request'[y].task # request[x].task
    BY <1>1, <2>1 DEF CreateChecked
  <2> QED
    BY <1>1, <2>1, <2>2, <2>3, <2>4 DEF CreateChecked
<1>7. ASSUME NEW x \in Thread, request'[x].action \in Action PROVE ActionChecked(x)'
  <2>1. /\ x # t /\ request'[x] = request[x] /\ ActionChecked(x) /\ request[x] \in Pending
    BY <1>5, <1>7, RequestsApart DEF TaskInv, TypeOK
  <2>2. /\ request[x].task \in Task /\ request[x].copy.version \in Nat
        /\ task[k].version \in Nat
    BY <2>1 DEF Pending, Row, TaskInv, TypeOK
  <2>3. CASE request[x].task = k
    BY <1>1, <1>3, <2>1, <2>2, <2>3 DEF ActionChecked
  <2>4. CASE request[x].task # k
    BY <1>1, <2>1, <2>2, <2>4 DEF ActionChecked
  <2> QED
    BY <2>3, <2>4
<1>8. ASSUME NEW j \in Task PROVE RowInv(task'[j], timeline'[j])
  BY <1>1 DEF TaskInv
<1>9. ASSUME NEW j \in Task PROVE ClearOf(task', task'[j].plan, task'[j].before)
  <2>1. ClearOf(task, task'[j].plan, task'[j].before)
    BY <1>1 DEF TaskInv
  <2>2. task'[j].before \in SUBSET Task
    BY <1>2 DEF TypeOK, Row
  <2> QED
    BY <1>4, <2>1, <2>2
<1> QED
  BY <1>2, <1>6, <1>7, <1>8, <1>9 DEF TaskInv

-----------------------------------------------------------------------------
(* Tasks: the steps.                                                       *)

\* create_task, its checks.
LEMMA LoadCreateKeeps ==
  ASSUME TaskInv, NEW t \in Thread, NEW u \in User, NEW k \in Task, NEW key \in Key,
         NEW p \in Plan, LoadCreate(t, u, k, key, p)
  PROVE  TaskInv'
<1> DEFINE copy == [NoRow EXCEPT !.status = "PLANNED", !.by = u, !.key = key, !.plan = p,
                                 !.version = 1, !.before = Stored]
           q == [action |-> "CREATE", by |-> u, task |-> k, assignee |-> Nobody, copy |-> copy]
<1>1. /\ copy.status = "PLANNED" /\ copy.version = 1 /\ copy.sugg = <<>>
      /\ copy.pending = FALSE /\ copy.plan = p /\ copy.before = Stored
  BY DEF NoRow
<1>2. Stored \subseteq Task
  BY DEF Stored
<1>3. copy \in Row
  BY <1>2, NoRowTyped DEF Row, Status
<1> HIDE DEF copy
<1>4. q \in Pending /\ q.action = "CREATE" /\ q.task = k /\ q.copy = copy
  BY <1>3 DEF Pending
<1>5. Takes(t, q)
  BY DEF LoadCreate, Takes, copy
<1>6. ClearOf(task, p, Stored)
  BY DEF LoadCreate, PlanConflict, ClearOf, Stored, Active
<1> HIDE DEF q
<1>7. request'[t] = q /\ \A x \in Thread : x # t => request'[x] = request[x]
  BY <1>5 DEF Takes, TaskInv, TypeOK
<1>8. CreateChecked(t)'
  <2>1. task'[k] = NoRow /\ task' = task
    BY DEF LoadCreate
  <2>2. \A x \in Thread : x # t /\ request'[x] # NoRequest => request'[x].task # k
    BY <1>7 DEF LoadCreate
  <2>3. /\ copy.status = "PLANNED" /\ copy.version = 1 /\ copy.sugg = <<>>
        /\ copy.pending = FALSE /\ copy.plan = p /\ copy.before = Stored
    BY <1>1
  <2>4. ClearOf(task', copy.plan, copy.before)
    BY <1>6, <2>1, <2>3
  <2> QED
    BY <1>4, <1>7, <2>1, <2>2, <2>3, <2>4 DEF CreateChecked
<1> QED
  BY <1>4, <1>5, <1>8, RequestsApart, TakeKeeps

\* Any other request, its checks.
LEMMA LoadKeeps ==
  ASSUME TaskInv, NEW t \in Thread, NEW u \in User, NEW k \in Task, NEW action \in Action,
         NEW s \in Staff \cup {Nobody}, Load(t, u, k, action, s)
  PROVE  TaskInv'
<1> DEFINE q == [action |-> action, by |-> u, task |-> k, copy |-> task[k], assignee |-> s]
<1>1. task[k] \in Row
  BY DEF TaskInv, TypeOK
<1>2. /\ q \in Pending /\ q.action = action /\ q.task = k /\ q.copy = task[k]
      /\ q.by = u
  BY <1>1 DEF Pending
<1>3. Takes(t, q)
  BY DEF Load, Takes
<1>4. task[k] # NoRow /\ May(u, task[k], action)
  BY DEF Load
<1> HIDE DEF q
<1>5. request'[t] = q /\ task' = task
  BY <1>3 DEF Takes, TaskInv, TypeOK
<1>6. ActionChecked(t)'
  BY <1>1, <1>2, <1>4, <1>5 DEF ActionChecked, Row
<1> QED
  BY <1>2, <1>3, <1>6, RequestsApart, TakeKeeps

\* create_task writes.
LEMMA WriteCreateKeeps == ASSUME TaskInv, NEW t \in Thread, WriteCreate(t) PROVE TaskInv'
<1> DEFINE q == request[t]
           k == q.task
           row == q.copy
           line == timeline[k] \o Entries("CREATE", q.by)
<1>1. q.action = "CREATE" /\ q \in Pending /\ CreateChecked(t)
  BY RequestsApart DEF WriteCreate, TaskInv, TypeOK
<1>2. k \in Task /\ row \in Row /\ q.by \in User /\ timeline[k] \in Seq(Entry)
  BY <1>1 DEF Pending, TaskInv, TypeOK
<1>3. /\ task' = [task EXCEPT ![k] = row]
      /\ timeline' = [timeline EXCEPT ![k] = line]
      /\ request' = [request EXCEPT ![t] = NoRequest]
  BY DEF WriteCreate
<1>4. task[k] = NoRow /\ row.version = 1 /\ row.status = "PLANNED" /\ row.sugg = <<>>
      /\ row.pending = FALSE /\ ClearOf(task, row.plan, row.before)
  BY <1>1 DEF CreateChecked
<1>5. task[k].version = 0 /\ task[k].sugg = <<>> /\ task[k].pending = FALSE
      /\ task[k].status = "NONE"
  BY <1>4 DEF NoRow
<1>6. timeline[k] = <<>>
  <2>1. RowInv(task[k], timeline[k])
    BY <1>2 DEF TaskInv
  <2>2. Done(timeline[k], "SUBMIT_RECORDS") = {}
    BY <1>5, <2>1 DEF RowInv
  <2>3. /\ task[k].version + Cardinality(Done(timeline[k], "SUBMIT_RECORDS")) = Len(timeline[k])
        /\ Cardinality({}) = 0
    BY <2>1, FS_EmptySet DEF RowInv, Agrees
  <2>4. Len(timeline[k]) = 0 + 0
    BY <1>5, <2>2, <2>3, Zenon
  <2> QED
    BY <1>2, <2>4, EmptySeq
<1>7. Extends(<<>>, line, "CREATE", q.by)
  BY <1>2, <1>6, EntriesExtend
<1>8. line \in Seq(Entry) /\ Len(line) = 1 /\ \A a \in Action : Done(line, a) = {}
  <2>1. Len(<<>>) = 0
    OBVIOUS
  <2> HIDE DEF line
  <2> QED
    BY <1>7, <2>1, NothingDone, RequestsApart DEF Extends
<1> HIDE DEF line, row
<1>9. RowInv(row, line)
  BY <1>2, <1>4, <1>8, RequestsApart, NewAgrees
<1>10. \A x \in Thread : x # t /\ request[x].action = "CREATE" => request[x].task # k
  BY <1>1, RequestsApart DEF CreateChecked, k
<1>11. row.version = task[k].version + 1
  BY <1>4, <1>5
<1>12. line \in Seq(Entry) /\ row \in Row /\ k \in Task
  BY <1>2, <1>8
<1> HIDE DEF k
<1> QED
  BY <1>3, <1>4, <1>9, <1>10, <1>11, <1>12, WriteKeeps

\* Any other request writes.
LEMMA WriteActionKeeps == ASSUME TaskInv, NEW t \in Thread, WriteAction(t) PROVE TaskInv'
<1> DEFINE q == request[t]
           k == q.task
           row == Changed(q.copy, q.action, q.assignee)
           line == timeline[k] \o Entries(q.action, q.by)
<1>1. /\ q.action \in Action /\ q \in Pending /\ ActionChecked(t)
      /\ task[k].version = q.copy.version
  BY RequestsApart DEF WriteAction, TaskInv, TypeOK, Saves
<1>2. /\ k \in Task /\ task[k] \in Row /\ q.by \in User /\ timeline[k] \in Seq(Entry)
      /\ q.assignee \in Staff \cup {Nobody}
  BY <1>1 DEF Pending, TaskInv, TypeOK
<1>3. /\ task' = [task EXCEPT ![k] = row]
      /\ timeline' = [timeline EXCEPT ![k] = line]
      /\ request' = [request EXCEPT ![t] = NoRequest]
  BY DEF WriteAction
<1>4. q.copy = task[k] /\ May(q.by, task[k], q.action) /\ task[k] # NoRow
  BY <1>1 DEF ActionChecked
<1>5. RowInv(task[k], timeline[k])
  BY <1>2 DEF TaskInv
<1>6. RowInv(row, line)
  BY <1>1, <1>2, <1>4, <1>5, ChangedAgrees
<1>7. Effect(task[k], q.action, q.assignee, row)
  BY <1>1, <1>2, <1>4, ChangedDoes
<1>8. line \in Seq(Entry)
  BY <1>1, <1>2, EntriesExtend DEF Extends
<1>9. /\ row \in Row /\ row.version = task[k].version + 1
      /\ row.plan = task[k].plan /\ row.before = task[k].before
      /\ row.status \in {"PLANNED", "ASSIGNED", "IN_PROGRESS"} =>
             task[k].status \in {"PLANNED", "ASSIGNED", "IN_PROGRESS"}
  BY <1>7 DEF Effect, TRANSITIONS
<1>10. \A x \in Thread : x # t /\ request[x].action = "CREATE" => request[x].task # k
  BY <1>4 DEF TaskInv, CreateChecked
<1> HIDE DEF line, row, k
<1> QED
  BY <1>2, <1>3, <1>6, <1>8, <1>9, <1>10, WriteKeeps

\* Every step keeps the invariant.
LEMMA TaskInvStep == TaskInv /\ [Next]_vars => TaskInv'
<1> SUFFICES ASSUME TaskInv, [Next]_vars PROVE TaskInv'
  OBVIOUS
<1>1. CASE UNCHANGED vars
  BY <1>1 DEF vars, TaskInv, TypeOK, CreateChecked, ActionChecked
<1>2. ASSUME NEW t \in Thread, NEW u \in User, NEW k \in Task, NEW action \in TaskAction,
             NEW s \in Staff \cup {Nobody}, ExecuteTaskAction(t, u, k, action, s)
      PROVE  TaskInv'
  BY <1>2, LoadKeeps DEF ExecuteTaskAction, Action
<1>3. ASSUME NEW t \in Thread, NEW u \in User, NEW k \in Task,
             AddAiSuggestion(t, u, k) \/ ConfirmAiSuggestions(t, u, k)
      PROVE  TaskInv'
  BY <1>3, LoadKeeps, ActionsNamed DEF AddAiSuggestion, ConfirmAiSuggestions
<1> QED
  BY <1>1, <1>2, <1>3, LoadCreateKeeps, WriteCreateKeeps, WriteActionKeeps, AbortKeeps
  DEF Next

-----------------------------------------------------------------------------
\* Plans that share an instant overlap in time.
LEMMA CoversOverlap ==
  ASSUME NEW p \in ValidPlan \cup {NoPlan}, NEW q \in ValidPlan \cup {NoPlan},
         Covers(p) \cap Covers(q) # {}
  PROVE  TimeOverlaps(p, q)
<1>1. p.planned \in Nat /\ p.due \in Nat /\ q.planned \in Nat /\ q.due \in Nat
  BY TaskAssumption DEF ValidPlan, NoPlan
<1>2. PICK i \in 1..MaxTime : i \in Covers(p) /\ i \in Covers(q)
  BY DEF Covers
<1>3. /\ p.planned <= i /\ (p.due = 0 \/ i <= p.due)
      /\ q.planned <= i /\ (q.due = 0 \/ i <= q.due)
  BY <1>2 DEF Covers
<1> QED
  BY <1>1, <1>3, TaskAssumption DEF TimeOverlaps

\* The check of a plan against those before it is what keeps them apart.
LEMMA PlansApart == TaskInv => PlansClashOnlyUnseen
<1> SUFFICES ASSUME TaskInv, NEW j \in Task, NEW k \in Task,
                    Active(j), Active(k), j \in task[k].before,
                    task[j].plan.points \cap task[k].plan.points # {},
                    Covers(task[j].plan) \cap Covers(task[k].plan) # {}
             PROVE  task[k].plan.planned = 0 /\ task[k].plan.due = 0
  BY DEF PlansClashOnlyUnseen
<1>1. /\ task[j].plan \in ValidPlan \cup {NoPlan} /\ task[k].plan \in ValidPlan \cup {NoPlan}
  BY TaskAssumption DEF TaskInv, TypeOK, Row
<1>2. TimeOverlaps(task[k].plan, task[j].plan)
  BY <1>1, CoversOverlap
<1>3. ClearOf(task, task[k].plan, task[k].before)
  BY DEF TaskInv
<1>4. ~(task[k].plan.planned > 0 \/ task[k].plan.due > 0)
  BY <1>2, <1>3 DEF ClearOf, Active
<1>5. task[k].plan.planned \in Nat /\ task[k].plan.due \in Nat
  BY <1>1, TaskAssumption DEF ValidPlan, NoPlan
<1> QED
  BY <1>4, <1>5

-----------------------------------------------------------------------------
(* Events: one row, its log and its disposals.                             *)

\* The actions by name.
LEMMA EventActionsNamed ==
    E!Action = {"ASSIGN", "SUBMIT_DISPOSAL", "REVIEW_PASS", "RETURN", "GRADE_CONFIRM"}
<1>1. {m[2] : m \in E!TRANSITIONS} = {"ASSIGN", "SUBMIT_DISPOSAL", "REVIEW_PASS", "RETURN"}
  BY DEF E!TRANSITIONS
<1> QED
  BY <1>1 DEF E!Action

\* Where a log tells of an action after one more entry, and how often.
LEMMA LoggedAppend ==
  ASSUME NEW line \in Seq(E!Entry), NEW entry \in E!Entry
  PROVE  \A a :
            /\ E!Logged(Append(line, entry), a) =
                  E!Logged(line, a) \cup (IF entry.action = a THEN {Len(line) + 1} ELSE {})
            /\ E!Logged(line, a) \subseteq 1..Len(line)
            /\ Cardinality(E!Logged(line, a)) \in Nat
            /\ Cardinality(E!Logged(line, a)) = 0 <=> E!Logged(line, a) = {}
            /\ Cardinality(E!Logged(Append(line, entry), a)) =
                  Cardinality(E!Logged(line, a)) + (IF entry.action = a THEN 1 ELSE 0)
<1> DEFINE longer == Append(line, entry)
           n == Len(line)
<1>1. /\ longer \in Seq(E!Entry) /\ Len(longer) = n + 1
      /\ \A i \in 1..n : longer[i] = line[i]
      /\ longer[n + 1] = entry
  BY AppendedOne
<1>2. n \in Nat /\ DOMAIN line = 1..n /\ DOMAIN longer = 1..(n + 1)
  BY <1>1, LenProperties
<1> HIDE DEF longer, n
<1>3. DOMAIN longer = (1..n) \cup {n + 1}
  BY <1>2
<1> SUFFICES ASSUME NEW a
             PROVE  /\ E!Logged(longer, a) =
                          E!Logged(line, a) \cup (IF entry.action = a THEN {n + 1} ELSE {})
                    /\ E!Logged(line, a) \subseteq 1..n
                    /\ Cardinality(E!Logged(line, a)) \in Nat
                    /\ Cardinality(E!Logged(line, a)) = 0 <=> E!Logged(line, a) = {}
                    /\ Cardinality(E!Logged(longer, a)) =
                          Cardinality(E!Logged(line, a)) + (IF entry.action = a THEN 1 ELSE 0)
  BY DEF longer, n
<1>4. E!Logged(longer, a) =
         E!Logged(line, a) \cup (IF entry.action = a THEN {n + 1} ELSE {})
  BY <1>1, <1>2, <1>3 DEF E!Logged
<1>5. E!Logged(line, a) \subseteq 1..n /\ n + 1 \notin E!Logged(line, a)
  BY <1>2 DEF E!Logged
<1>6. IsFiniteSet(E!Logged(line, a))
  <2>1. IsFiniteSet(1..n)
    BY <1>2, FS_Interval
  <2> QED
    BY <1>5, <2>1, FS_Subset
<1>7. /\ Cardinality(E!Logged(line, a)) \in Nat
      /\ Cardinality(E!Logged(line, a)) = 0 <=> E!Logged(line, a) = {}
  BY <1>6, FS_CardinalityType, FS_EmptySet
<1>8. Cardinality(E!Logged(line, a) \cup {n + 1}) = Cardinality(E!Logged(line, a)) + 1
  BY <1>5, <1>6, FS_AddElement
<1>9. CASE entry.action = a
  <2>1. E!Logged(longer, a) = E!Logged(line, a) \cup {n + 1}
    BY <1>4, <1>9
  <2> QED
    BY <1>5, <1>7, <1>8, <1>9, <2>1
<1>10. CASE entry.action # a
  <2>1. E!Logged(longer, a) = E!Logged(line, a)
    BY <1>4, <1>10
  <2>2. Cardinality(E!Logged(line, a)) + 0 = Cardinality(E!Logged(line, a))
    BY <1>7
  <2> QED
    BY <1>4, <1>5, <1>7, <1>10, <2>1, <2>2
<1> QED
  BY <1>9, <1>10

\* The last confirmation of a grade is the one that the row names, and follows a
\* disposal.
Confirmation(row, line) ==
    \E i \in E!Logged(line, "GRADE_CONFIRM") :
       /\ \A j \in E!Logged(line, "GRADE_CONFIRM") : j <= i
       /\ \E j \in E!Logged(line, "SUBMIT_DISPOSAL") : j < i
       /\ line[i].by = row.confirmed

\* What the status of an event says about its log and its disposals.
EventRowInv(row, line, handlers) ==
    LET disposals == Len(handlers)
        returns == Cardinality(E!Logged(line, "RETURN")) IN
    /\ row.version = Len(line)
    /\ disposals = Cardinality(E!Logged(line, "SUBMIT_DISPOSAL"))
    /\ \A i \in DOMAIN handlers : handlers[i] = row.assignee
    /\ row.status \in {"NONE", "REPORTED"} => disposals = 0 /\ returns = 0
    /\ row.status = "ASSIGNED" => disposals = returns
    /\ row.status \in {"PENDING_REVIEW", "CLOSED"} => disposals = returns + 1
    /\ row.status # "CLOSED" => E!Logged(line, "REVIEW_PASS") = {}
    /\ row.status = "CLOSED" =>
          /\ E!Logged(line, "REVIEW_PASS") = {Len(line)}
          /\ line[Len(line)].by \in Manager
          /\ row.risk = "HIGH_RISK" => row.confirmed # Nobody
    /\ row.confirmed # Nobody => Confirmation(row, line)

\* SecurityEvent counts as this module does.
LEMMA SameCardinality == \A S : E!Cardinality(S) = Cardinality(S)
  BY Zenon DEF E!Cardinality, Cardinality

\* What is kept of a row and its log is what a review relies on.
LEMMA RowInvReviewed ==
  ASSUME NEW row, NEW line, NEW handlers, EventRowInv(row, line, handlers)
  PROVE  E!AsReviewed(row, line, handlers)
<1>1. {} # {Len(line)}
  OBVIOUS
<1> QED
  BY <1>1, SameCardinality, Zenon DEF EventRowInv, E!AsReviewed, Confirmation

\* What an action makes of a row, field by field.
EventEffect(row, q, new) ==
    /\ new \in E!Row
    /\ new.version = row.version + 1
    /\ q.action # "GRADE_CONFIRM" => <<row.status, q.action, new.status>> \in E!TRANSITIONS
    /\ q.action = "GRADE_CONFIRM" => new.status = row.status
    /\ new.assignee = IF q.action = "ASSIGN" THEN q.assignee ELSE row.assignee
    /\ new.confirmed = IF q.action = "GRADE_CONFIRM" THEN q.by ELSE row.confirmed
    /\ new.type = row.type /\ new.risk = row.risk /\ new.via = row.via
    /\ new.by = row.by /\ new.key = row.key

\* A row with other values in the fields that actions change.
EventWith(row, status, assignee, confirmed) ==
    [row EXCEPT !.status = status, !.assignee = assignee, !.confirmed = confirmed,
                !.version = row.version + 1]

\* What it is, field by field.
LEMMA EventWithDoes ==
  ASSUME NEW row \in E!Row, NEW status \in E!Status, NEW assignee \in Staff \cup {Nobody},
         NEW confirmed \in Manager \cup {Nobody}
  PROVE  LET new == EventWith(row, status, assignee, confirmed) IN
         /\ new \in E!Row
         /\ new.version = row.version + 1 /\ new.status = status /\ new.assignee = assignee
         /\ new.confirmed = confirmed
         /\ new.type = row.type /\ new.risk = row.risk /\ new.via = row.via
         /\ new.by = row.by /\ new.key = row.key
<1>1. row.version + 1 \in Nat
  BY DEF E!Row
<1>2. EventWith(row, status, assignee, confirmed) \in E!Row
  BY <1>1 DEF E!Row, EventWith
<1> QED
  BY <1>2 DEF E!Row, EventWith

\* Where transitions lead.
LEMMA EventTransitionsTyped ==
    \A m \in E!TRANSITIONS : /\ m = <<m[1], m[2], m[3]>>
                             /\ m[3] \in E!Status
  BY DEF E!TRANSITIONS, E!Status

\* What an action that may be done makes of a row.
LEMMA EventChangedDoes ==
  ASSUME NEW row \in E!Row, NEW q \in E!Pending, q.action \in E!Action,
         E!May(q.by, row, q.action)
  PROVE  EventEffect(row, q, E!Changed(row, q))
<1> DEFINE new == E!Changed(row, q)
           move == CHOOSE m \in E!TRANSITIONS : m[1] = row.status /\ m[2] = q.action
           status == IF q.action = "GRADE_CONFIRM" THEN row.status ELSE move[3]
           assignee == IF q.action = "ASSIGN" THEN q.assignee ELSE row.assignee
           confirmed == IF q.action = "GRADE_CONFIRM" THEN q.by ELSE row.confirmed
<1>1. q.action # "GRADE_CONFIRM" =>
         move \in E!TRANSITIONS /\ move[1] = row.status /\ move[2] = q.action
  <2> SUFFICES ASSUME q.action # "GRADE_CONFIRM"
               PROVE  \E m \in E!TRANSITIONS : m[1] = row.status /\ m[2] = q.action
    OBVIOUS
  <2> QED
    BY DEF E!May
<1>2. new = EventWith(row, status, assignee, confirmed)
  BY DEF E!Changed, EventWith
<1>3. q.action # "GRADE_CONFIRM" => <<row.status, q.action, move[3]>> \in E!TRANSITIONS
  BY <1>1, EventTransitionsTyped
<1> HIDE DEF move
<1>4. status \in E!Status
  BY <1>3 DEF E!Row, E!TRANSITIONS, E!Status
<1>5. assignee \in Staff \cup {Nobody}
  BY DEF E!Row, E!Pending
<1>6. confirmed \in Manager \cup {Nobody}
  BY DEF E!Row, E!May
<1>7. /\ q.action = "GRADE_CONFIRM" => status = row.status
      /\ q.action # "GRADE_CONFIRM" => status = move[3]
  OBVIOUS
<1> HIDE DEF new, status
<1>8. /\ new \in E!Row
      /\ new.version = row.version + 1 /\ new.status = status /\ new.assignee = assignee
      /\ new.confirmed = confirmed
      /\ new.type = row.type /\ new.risk = row.risk /\ new.via = row.via
      /\ new.by = row.by /\ new.key = row.key
  BY <1>2, <1>4, <1>5, <1>6, EventWithDoes
<1> QED
  BY <1>3, <1>7, <1>8 DEF EventEffect, new

\* An action that may be done keeps a row, its log and its disposals in agreement.
LEMMA EventChangedAgrees ==
  ASSUME NEW row \in E!Row, NEW line \in Seq(E!Entry), NEW handlers \in Seq(Staff),
         EventRowInv(row, line, handlers),
         NEW q \in E!Pending, q.action \in E!Action, E!May(q.by, row, q.action)
  PROVE  EventRowInv(E!Changed(row, q), Append(line, [action |-> q.action, by |-> q.by]),
                     IF q.action = "SUBMIT_DISPOSAL" THEN Append(handlers, q.by) ELSE handlers)
<1> DEFINE new == E!Changed(row, q)
           entry == [action |-> q.action, by |-> q.by]
           longer == Append(line, entry)
           more == IF q.action = "SUBMIT_DISPOSAL" THEN Append(handlers, q.by) ELSE handlers
           n == Len(line)
<1>1. EventEffect(row, q, new)
  BY EventChangedDoes
<1>2. entry \in E!Entry /\ entry.action = q.action /\ entry.by = q.by
  BY DEF E!Entry, E!Pending
<1> HIDE DEF new, entry
<1>3. /\ longer \in Seq(E!Entry) /\ Len(longer) = n + 1
      /\ \A i \in 1..n : longer[i] = line[i]
      /\ longer[n + 1] = entry
  BY <1>2, AppendedOne
<1>4. \A a : /\ E!Logged(longer, a) =
                   E!Logged(line, a) \cup (IF q.action = a THEN {n + 1} ELSE {})
             /\ E!Logged(line, a) \subseteq 1..n
             /\ Cardinality(E!Logged(line, a)) \in Nat
             /\ Cardinality(E!Logged(line, a)) = 0 <=> E!Logged(line, a) = {}
             /\ Cardinality(E!Logged(longer, a)) =
                   Cardinality(E!Logged(line, a)) + (IF q.action = a THEN 1 ELSE 0)
  BY <1>2, LoggedAppend
<1>5. /\ n \in Nat /\ row.version \in Nat /\ Len(handlers) \in Nat
      /\ DOMAIN handlers = 1..Len(handlers)
  BY LenProperties DEF E!Row
<1> HIDE DEF longer, n
<1>6. /\ q.action \in {"ASSIGN", "SUBMIT_DISPOSAL", "REVIEW_PASS", "RETURN", "GRADE_CONFIRM"}
      /\ q.action = "ASSIGN" => row.status = "REPORTED" /\ new.status = "ASSIGNED"
      /\ q.action = "SUBMIT_DISPOSAL" =>
            row.status = "ASSIGNED" /\ new.status = "PENDING_REVIEW" /\ q.by = row.assignee
            /\ q.by \in Staff
      /\ q.action = "REVIEW_PASS" =>
            /\ row.status = "PENDING_REVIEW" /\ new.status = "CLOSED" /\ q.by \in Manager
            /\ row.risk = "HIGH_RISK" => row.confirmed # Nobody
      /\ q.action = "RETURN" => row.status = "PENDING_REVIEW" /\ new.status = "ASSIGNED"
      /\ q.action = "GRADE_CONFIRM" =>
            row.status = "PENDING_REVIEW" /\ new.status = "PENDING_REVIEW" /\ q.by \in Manager
  <2>1. q.action \in {"ASSIGN", "SUBMIT_DISPOSAL", "REVIEW_PASS", "RETURN", "GRADE_CONFIRM"}
    BY EventActionsNamed
  <2>2. CASE q.action = "GRADE_CONFIRM"
    BY <1>1, <2>2 DEF EventEffect, E!May
  <2>3. CASE q.action # "GRADE_CONFIRM"
    <3>1. <<row.status, q.action, new.status>> \in E!TRANSITIONS
      BY <1>1, <2>3 DEF EventEffect
    <3> QED
      BY <2>1, <2>3, <3>1 DEF E!TRANSITIONS, E!May
  <2> QED
    BY <2>2, <2>3
<1>7. /\ new.version = row.version + 1 /\ new.risk = row.risk
      /\ new.assignee = IF q.action = "ASSIGN" THEN q.assignee ELSE row.assignee
      /\ new.confirmed = IF q.action = "GRADE_CONFIRM" THEN q.by ELSE row.confirmed
  BY <1>1 DEF EventEffect
<1>8. /\ Len(more) = Len(handlers) + (IF q.action = "SUBMIT_DISPOSAL" THEN 1 ELSE 0)
      /\ \A i \in DOMAIN more : \/ i \in DOMAIN handlers /\ more[i] = handlers[i]
                                \/ q.action = "SUBMIT_DISPOSAL" /\ more[i] = q.by
  <2>1. CASE q.action = "SUBMIT_DISPOSAL"
    <3>1. /\ more \in Seq(Staff) /\ Len(more) = Len(handlers) + 1
          /\ \A i \in 1..Len(handlers) : more[i] = handlers[i]
          /\ more[Len(handlers) + 1] = q.by
      BY <1>6, <2>1, AppendedOne
    <3> HIDE DEF more
    <3>2. DOMAIN more = 1..(Len(handlers) + 1)
      BY <3>1, LenProperties
    <3> QED
      BY <1>5, <2>1, <3>1, <3>2
  <2>2. CASE q.action # "SUBMIT_DISPOSAL"
    BY <1>5, <2>2
  <2> QED
    BY <2>1, <2>2
<1> HIDE DEF more
<1> DEFINE submits == Cardinality(E!Logged(line, "SUBMIT_DISPOSAL"))
           returns == Cardinality(E!Logged(line, "RETURN"))
<1>9. /\ row.version = n /\ Len(handlers) = submits
      /\ \A i \in DOMAIN handlers : handlers[i] = row.assignee
      /\ row.status \in {"NONE", "REPORTED"} => Len(handlers) = 0 /\ returns = 0
      /\ row.status = "ASSIGNED" => Len(handlers) = returns
      /\ row.status \in {"PENDING_REVIEW", "CLOSED"} => Len(handlers) = returns + 1
      /\ row.status # "CLOSED" => E!Logged(line, "REVIEW_PASS") = {}
      /\ row.confirmed # Nobody => Confirmation(row, line)
  BY DEF EventRowInv, n
<1>10. /\ submits \in Nat /\ returns \in Nat
       /\ Cardinality(E!Logged(longer, "SUBMIT_DISPOSAL")) =
             submits + (IF q.action = "SUBMIT_DISPOSAL" THEN 1 ELSE 0)
       /\ Cardinality(E!Logged(longer, "RETURN")) =
             returns + (IF q.action = "RETURN" THEN 1 ELSE 0)
  BY <1>4
<1> HIDE DEF submits, returns
<1>11. new.version = Len(longer)
  BY <1>3, <1>7, <1>9
<1>12. Len(more) = Cardinality(E!Logged(longer, "SUBMIT_DISPOSAL"))
  BY <1>8, <1>9, <1>10
<1>13. \A i \in DOMAIN more : more[i] = new.assignee
  <2>1. CASE q.action = "ASSIGN"
    <3>1. DOMAIN handlers = {}
      BY <1>5, <1>6, <1>9, <2>1
    <3> QED
      BY <1>8, <2>1, <3>1
  <2>2. CASE q.action # "ASSIGN"
    BY <1>6, <1>7, <1>8, <1>9, <2>2
  <2> QED
    BY <2>1, <2>2
<1>14. /\ new.status \notin {"NONE", "REPORTED"}
       /\ new.status = "ASSIGNED" => Len(more) = Cardinality(E!Logged(longer, "RETURN"))
       /\ new.status \in {"PENDING_REVIEW", "CLOSED"} =>
             Len(more) = Cardinality(E!Logged(longer, "RETURN")) + 1
  BY <1>5, <1>6, <1>8, <1>9, <1>10
<1>15. new.status # "CLOSED" => E!Logged(longer, "REVIEW_PASS") = {}
  BY <1>4, <1>6, <1>9
<1>16. new.status = "CLOSED" => /\ E!Logged(longer, "REVIEW_PASS") = {Len(longer)}
                                /\ longer[Len(longer)].by \in Manager
                                /\ new.risk = "HIGH_RISK" => new.confirmed # Nobody
  BY <1>2, <1>3, <1>4, <1>6, <1>7, <1>9
<1>17. ASSUME new.confirmed # Nobody PROVE Confirmation(new, longer)
  <2>1. CASE q.action = "GRADE_CONFIRM"
    <3>1. n + 1 \in E!Logged(longer, "GRADE_CONFIRM") /\ longer[n + 1].by = new.confirmed
      BY <1>2, <1>3, <1>4, <1>7, <2>1
    <3>2. \A j \in E!Logged(longer, "GRADE_CONFIRM") : j <= n + 1
      BY <1>4, <1>5
    <3>3. submits # 0
      BY <1>6, <1>9, <1>10, <2>1
    <3>4. PICK j \in E!Logged(line, "SUBMIT_DISPOSAL") : TRUE
      BY <1>4, <3>3 DEF submits
    <3>5. j \in E!Logged(longer, "SUBMIT_DISPOSAL") /\ j < n + 1
      BY <1>4, <1>5
    <3> QED
      BY <3>1, <3>2, <3>5 DEF Confirmation
  <2>2. CASE q.action # "GRADE_CONFIRM"
    <3>1. new.confirmed = row.confirmed /\ Confirmation(row, line)
      BY <1>7, <1>9, <1>17, <2>2
    <3>2. PICK i \in E!Logged(line, "GRADE_CONFIRM") :
             /\ \A j \in E!Logged(line, "GRADE_CONFIRM") : j <= i
             /\ \E j \in E!Logged(line, "SUBMIT_DISPOSAL") : j < i
             /\ line[i].by = row.confirmed
      BY <3>1 DEF Confirmation
    <3>3. /\ E!Logged(longer, "GRADE_CONFIRM") = E!Logged(line, "GRADE_CONFIRM")
          /\ E!Logged(line, "SUBMIT_DISPOSAL") \subseteq E!Logged(longer, "SUBMIT_DISPOSAL")
          /\ longer[i] = line[i]
      BY <1>3, <1>4, <2>2
    <3> QED
      BY <3>1, <3>2, <3>3 DEF Confirmation
  <2> QED
    BY <2>1, <2>2
<1> QED
  BY <1>11, <1>12, <1>13, <1>14, <1>15, <1>16, <1>17
  DEF EventRowInv, new, longer, entry, more

-----------------------------------------------------------------------------
(* Events: the invariant of the transactions.                              *)

\* Whom the report of an event has reached, by its row, its messages and its
\* tickets.
Reached(row, count, tickets) ==
    LET reached == {u \in DOMAIN count : count[u] > 0} IN
    /\ tickets <= 1 /\ \A u \in reached : count[u] = 1
    /\ row.risk = "HIGH_RISK" <=> (reached # {} \/ tickets = 1)
    /\ reached = {} \/ tickets = 0
    /\ row.via = "ADAPTER" /\ row.type \in E!Dangerous => row.risk = "HIGH_RISK"

\* A request that reports an event has it for itself, and its row is a new one.
EventCreateChecked(t) ==
    LET q == eventRequest[t] IN
    /\ event[q.event] = E!NoRow
    /\ \A x \in Thread : x # t /\ eventRequest[x] # E!NoRequest => eventRequest[x].event # q.event
    /\ q.copy.status = "REPORTED" /\ q.copy.version = 1
    /\ q.copy.assignee = Nobody /\ q.copy.confirmed = Nobody
    /\ q.copy.risk # "HIGH_RISK" => q.duty = {}
    /\ q.copy.via = "ADAPTER" /\ q.copy.type \in E!Dangerous => q.copy.risk = "HIGH_RISK"

\* Any other has a copy of the present row, or of one before it.
EventActionChecked(t) ==
    LET q == eventRequest[t]
        row == event[q.event] IN
    /\ row # E!NoRow
    /\ q.copy.version <= row.version
    /\ q.copy.version = row.version => q.copy = row
    /\ E!May(q.by, q.copy, q.action)

\* One reporter, one key, one event.
OneEvent == \A d, e \in Event : d # e /\ event[d] # E!NoRow /\ event[e] # E!NoRow =>
                <<event[d].by, event[d].key>> # <<event[e].by, event[e].key>>

\* The inductive invariant.
EventInv ==
    /\ E!TypeOK
    /\ \A t \in Thread : eventRequest[t].action = "CREATE" => EventCreateChecked(t)
    /\ \A t \in Thread : eventRequest[t].action \in E!Action => EventActionChecked(t)
    /\ \A e \in Event : EventRowInv(event[e], log[e], disposal[e])
    /\ \A e \in Event : Reached(event[e], told[e], ticket[e])
    /\ OneEvent

\* Requests are told apart by their actions.
LEMMA EventRequestsApart ==
    /\ "CREATE" \notin E!Action /\ "NONE" \notin E!Action
    /\ E!NoRequest.action = "NONE"
    /\ \A q \in E!Pending : q.action \in E!Action \cup {"CREATE"} /\ q # E!NoRequest
  BY EventActionsNamed DEF E!Pending, E!NoRequest

\* A row that is not there is typed as any other, and has nothing to tell.
LEMMA NoEventRowTyped ==
    /\ E!NoRow \in E!Row
    /\ E!NoRow.version = 0 /\ E!NoRow.status = "NONE" /\ E!NoRow.confirmed = Nobody
    /\ E!NoRow.risk = "LOW" /\ E!NoRow.via = "API"
  BY DEF E!NoRow, E!Row, E!Status, E!Risk, E!Way

\* A row to which nothing has been done yet.
LEMMA NewEventAgrees ==
  ASSUME NEW row, NEW line, row.version = Len(line),
         row.status \in {"NONE", "REPORTED"}, row.confirmed = Nobody,
         \A a \in E!Action : E!Logged(line, a) = {}
  PROVE  EventRowInv(row, line, <<>>)
<1>1. /\ E!Logged(line, "SUBMIT_DISPOSAL") = {} /\ E!Logged(line, "RETURN") = {}
      /\ E!Logged(line, "REVIEW_PASS") = {}
  BY EventActionsNamed
<1>2. Cardinality({}) = 0 /\ Len(<<>>) = 0 /\ DOMAIN <<>> = {}
  BY FS_EmptySet
<1>3. /\ Cardinality(E!Logged(line, "SUBMIT_DISPOSAL")) = 0
      /\ Cardinality(E!Logged(line, "RETURN")) = 0
  BY <1>1, <1>2, Zenon
<1> QED
  BY <1>1, <1>2, <1>3 DEF EventRowInv

\* The invariant holds at first.
LEMMA EventInvInit == E!Init => EventInv
<1> SUFFICES ASSUME E!Init PROVE EventInv
  OBVIOUS
<1>1. E!TypeOK
  <2>1. <<>> \in Seq(E!Entry) /\ <<>> \in Seq(Staff)
    OBVIOUS
  <2> QED
    BY <2>1, NoEventRowTyped DEF E!Init, E!TypeOK
<1>2. \A t \in Thread : eventRequest[t].action = "NONE"
  BY EventRequestsApart DEF E!Init
<1>3. EventRowInv(E!NoRow, <<>>, <<>>)
  <2>1. Len(<<>>) = 0 /\ \A a : E!Logged(<<>>, a) = {}
    BY DEF E!Logged
  <2> QED
    BY <2>1, NoEventRowTyped, NewEventAgrees
<1>4. \A e \in Event : EventRowInv(event[e], log[e], disposal[e])
  BY <1>3 DEF E!Init
<1>5. ASSUME NEW e \in Event PROVE Reached(event[e], told[e], ticket[e])
  <2>1. /\ event[e] = E!NoRow /\ told[e] = [u \in Manager \cup Staff |-> 0] /\ ticket[e] = 0
    BY DEF E!Init
  <2>2. {u \in DOMAIN told[e] : told[e][u] > 0} = {}
    BY <2>1
  <2> QED
    BY <2>1, <2>2, NoEventRowTyped DEF Reached
<1>6. OneEvent
  BY DEF E!Init, OneEvent
<1> QED
  BY <1>1, <1>2, <1>4, <1>5, <1>6, EventRequestsApart DEF EventInv

\* A request is taken, its checks passed.
EventTakes(t, q) ==
    /\ eventRequest[t] = E!NoRequest
    /\ eventRequest' = [eventRequest EXCEPT ![t] = q]
    /\ UNCHANGED <<event, log, disposal, told, ticket, active>>

\* It keeps the invariant if they have.
LEMMA EventTakeKeeps ==
  ASSUME EventInv, NEW t \in Thread, NEW q \in E!Pending, EventTakes(t, q),
         q.action = "CREATE" => EventCreateChecked(t)',
         q.action \in E!Action => EventActionChecked(t)'
  PROVE  EventInv'
<1>1. /\ eventRequest'[t] = q
      /\ \A x \in Thread : x # t => eventRequest'[x] = eventRequest[x]
      /\ event' = event /\ log' = log /\ disposal' = disposal /\ told' = told /\ ticket' = ticket
  BY DEF EventTakes, EventInv, E!TypeOK
<1>2. E!TypeOK'
  BY <1>1 DEF EventInv, E!TypeOK, EventTakes
<1>3. ASSUME NEW x \in Thread,
             eventRequest'[x].action = "CREATE" PROVE EventCreateChecked(x)'
  <2>1. CASE x = t
    BY <1>1, <1>3, <2>1
  <2>2. CASE x # t
    <3>1. eventRequest'[x] = eventRequest[x] /\ EventCreateChecked(x)
      BY <1>1, <1>3, <2>2 DEF EventInv
    <3>2. q.event # eventRequest[x].event
      <4>1. CASE q.action = "CREATE"
        <5>1. eventRequest'[x] # E!NoRequest
          BY <1>3, EventRequestsApart
        <5> QED
          BY <1>1, <2>2, <3>1, <4>1, <5>1 DEF EventCreateChecked
      <4>2. CASE q.action \in E!Action
        BY <1>1, <3>1, <4>2 DEF EventCreateChecked, EventActionChecked
      <4> QED
        BY <4>1, <4>2, EventRequestsApart
    <3> QED
      BY <1>1, <3>1, <3>2 DEF EventCreateChecked
  <2> QED
    BY <2>1, <2>2
<1>4. ASSUME NEW x \in Thread, eventRequest'[x].action \in E!Action
      PROVE  EventActionChecked(x)'
  <2>1. CASE x = t
    BY <1>1, <1>4, <2>1
  <2>2. CASE x # t
    BY <1>1, <1>4, <2>2 DEF EventInv, EventActionChecked
  <2> QED
    BY <2>1, <2>2
<1> QED
  BY <1>1, <1>2, <1>3, <1>4 DEF EventInv, OneEvent

\* A request is over, without a trace.
LEMMA EventAbortKeeps == ASSUME EventInv, NEW t \in Thread, E!Abort(t) PROVE EventInv'
<1>1. /\ eventRequest'[t] = E!NoRequest
      /\ \A x \in Thread : x # t => eventRequest'[x] = eventRequest[x]
      /\ event' = event /\ log' = log /\ disposal' = disposal /\ told' = told /\ ticket' = ticket
  BY DEF E!Abort, EventInv, E!TypeOK
<1>2. E!TypeOK'
  BY <1>1 DEF EventInv, E!TypeOK, E!Abort
<1>3. ASSUME NEW x \in Thread, eventRequest'[x].action # "NONE"
      PROVE  x # t /\ eventRequest'[x] = eventRequest[x]
  BY <1>1, <1>3, EventRequestsApart
<1>4. ASSUME NEW x \in Thread,
             eventRequest'[x].action = "CREATE" PROVE EventCreateChecked(x)'
  BY <1>1, <1>3, <1>4 DEF EventInv, EventCreateChecked
<1>5. ASSUME NEW x \in Thread, eventRequest'[x].action \in E!Action
      PROVE  EventActionChecked(x)'
  BY <1>1, <1>3, <1>5, EventRequestsApart DEF EventInv, EventActionChecked
<1> QED
  BY <1>1, <1>2, <1>4, <1>5 DEF EventInv, OneEvent

\* Accounts are none of the invariant's concern.
LEMMA SetActiveKeeps ==
  ASSUME EventInv, NEW users \in SUBSET (Manager \cup Staff), E!SetActive(users)
  PROVE  EventInv'
<1>1. E!TypeOK'
  BY DEF EventInv, E!TypeOK, E!SetActive
<1> QED
  BY <1>1 DEF EventInv, E!SetActive, OneEvent, EventCreateChecked, EventActionChecked

\* A request writes a row that agrees with its log, over the version it has read:
\* what the others have checked still holds.
LEMMA EventWriteKeeps ==
  ASSUME EventInv, NEW t \in Thread, NEW e \in Event, NEW row \in E!Row, E!TypeOK',
         event' = [event EXCEPT ![e] = row],
         eventRequest' = [eventRequest EXCEPT ![t] = E!NoRequest],
         \A d \in Event : d # e => /\ log'[d] = log[d] /\ disposal'[d] = disposal[d]
                                   /\ told'[d] = told[d] /\ ticket'[d] = ticket[d],
         EventRowInv(row, log'[e], disposal'[e]), Reached(row, told'[e], ticket'[e]),
         row.version = event[e].version + 1,
         \A x \in Thread : x # t /\ eventRequest[x].action = "CREATE" => eventRequest[x].event # e,
         \/ /\ event[e] # E!NoRow
            /\ row.by = event[e].by /\ row.key = event[e].key
         \/ \A d \in Event : <<event[d].by, event[d].key>> # <<row.by, row.key>>
  PROVE  EventInv'
<1>1. /\ event'[e] = row /\ \A d \in Event : d # e => event'[d] = event[d]
      /\ eventRequest'[t] = E!NoRequest
      /\ \A x \in Thread : x # t => eventRequest'[x] = eventRequest[x]
  BY DEF EventInv, E!TypeOK
<1>2. event[e].version \in Nat /\ row.version \in Nat
  BY DEF EventInv, E!TypeOK, E!Row
<1>3. row # E!NoRow
  BY <1>2, NoEventRowTyped
<1>4. ASSUME NEW x \in Thread, eventRequest'[x].action # "NONE"
      PROVE  x # t /\ eventRequest'[x] = eventRequest[x]
  BY <1>1, <1>4, EventRequestsApart
<1>5. ASSUME NEW x \in Thread,
             eventRequest'[x].action = "CREATE" PROVE EventCreateChecked(x)'
  <2>1. /\ x # t /\ eventRequest'[x] = eventRequest[x] /\ EventCreateChecked(x)
        /\ eventRequest[x].event # e /\ eventRequest[x] \in E!Pending
    BY <1>4, <1>5, EventRequestsApart DEF EventInv, E!TypeOK
  <2>2. eventRequest[x].event \in Event
    BY <2>1 DEF E!Pending
  <2>3. \A y \in Thread : y # x /\ eventRequest'[y] # E!NoRequest =>
           eventRequest'[y].event # eventRequest[x].event
    BY <1>1, <2>1 DEF EventCreateChecked
  <2> QED
    BY <1>1, <2>1, <2>2, <2>3 DEF EventCreateChecked
<1>6. ASSUME NEW x \in Thread, eventRequest'[x].action \in E!Action
      PROVE  EventActionChecked(x)'
  <2>1. /\ x # t /\ eventRequest'[x] = eventRequest[x] /\ EventActionChecked(x)
        /\ eventRequest[x] \in E!Pending
    BY <1>4, <1>6, EventRequestsApart DEF EventInv, E!TypeOK
  <2>2. eventRequest[x].event \in Event /\ eventRequest[x].copy.version \in Nat
    BY <2>1 DEF E!Pending, E!Row
  <2>3. CASE eventRequest[x].event = e
    BY <1>1, <1>2, <1>3, <2>1, <2>2, <2>3 DEF EventActionChecked
  <2>4. CASE eventRequest[x].event # e
    BY <1>1, <2>1, <2>2, <2>4 DEF EventActionChecked
  <2> QED
    BY <2>3, <2>4
<1>7. ASSUME NEW d \in Event
      PROVE  /\ EventRowInv(event'[d], log'[d], disposal'[d])
             /\ Reached(event'[d], told'[d], ticket'[d])
  BY <1>1 DEF EventInv
<1>8. OneEvent'
  <2> SUFFICES ASSUME NEW c \in Event, NEW d \in Event, c # d,
                      event'[c] # E!NoRow, event'[d] # E!NoRow
               PROVE  <<event'[c].by, event'[c].key>> # <<event'[d].by, event'[d].key>>
    BY DEF OneEvent
  <2> QED
    BY <1>1 DEF EventInv, OneEvent
<1> QED
  BY <1>5, <1>6, <1>7, <1>8 DEF EventInv

-----------------------------------------------------------------------------
(* Events: the steps.                                                      *)

\* The risk of a report is a risk, and the agent's report of what is dangerous is
\* of high risk.
LEMMA RiskFloor ==
  ASSUME NEW via \in E!Way, NEW type, NEW requested \in E!Risk
  PROVE  LET risk == E!Reported(via, type, requested) IN
         /\ risk \in E!Risk
         /\ via = "ADAPTER" /\ type \in E!Dangerous => risk = "HIGH_RISK"
<1>1. E!Floor(type) \in E!Risk /\ (type \in E!Dangerous => E!Floor(type) = "HIGH_RISK")
  BY DEF E!Floor, E!Risk
<1>2. E!Rank("HIGH_RISK") = 2 /\ E!Rank(requested) \in {0, 1, 2}
  BY DEF E!Rank
<1> QED
  BY <1>1, <1>2 DEF E!Reported, E!NormalizedRisk

\* create_event, as far as the list of those on duty.
LEMMA EventLoadCreateKeeps ==
  ASSUME EventInv, NEW t \in Thread, NEW u \in E!User, NEW e \in Event, NEW key \in Key,
         NEW type \in EventType, NEW requested \in E!Risk, NEW via \in E!Way,
         E!LoadCreate(t, u, e, key, type, requested, via)
  PROVE  EventInv'
<1> DEFINE risk == E!Reported(via, type, requested)
           duty == IF risk = "HIGH_RISK" THEN E!DutyUsers ELSE {}
           copy == [E!NoRow EXCEPT !.status = "REPORTED", !.type = type, !.risk = risk,
                                   !.via = via, !.by = u, !.key = key, !.version = 1]
           q == [action |-> "CREATE", by |-> u, event |-> e, assignee |-> Nobody,
                 duty |-> duty, copy |-> copy]
<1>1. risk \in E!Risk /\ (via = "ADAPTER" /\ type \in E!Dangerous => risk = "HIGH_RISK")
  BY RiskFloor
<1>2. EventTakes(t, q)
  BY DEF E!LoadCreate, EventTakes
<1>3. duty \in SUBSET (Manager \cup Staff) /\ (risk # "HIGH_RISK" => duty = {})
  BY DEF E!DutyUsers, EventInv, E!TypeOK
<1> HIDE DEF risk, duty
<1>4. /\ copy.status = "REPORTED" /\ copy.version = 1 /\ copy.assignee = Nobody
      /\ copy.confirmed = Nobody /\ copy.risk = risk /\ copy.via = via
      /\ copy.type = type
  BY DEF E!NoRow
<1>5. copy \in E!Row
  BY <1>1, NoEventRowTyped DEF E!Row, E!Status
<1> HIDE DEF copy
<1>6. /\ q \in E!Pending /\ q.action = "CREATE" /\ q.event = e /\ q.copy = copy
      /\ q.duty = duty
  BY <1>3, <1>5 DEF E!Pending
<1> HIDE DEF q
<1>7. /\ eventRequest'[t] = q /\ event' = event
      /\ \A x \in Thread : x # t => eventRequest'[x] = eventRequest[x]
  BY <1>2 DEF EventTakes, EventInv, E!TypeOK
<1>8. /\ event'[e] = E!NoRow
      /\ \A x \in Thread : x # t /\ eventRequest'[x] # E!NoRequest => eventRequest'[x].event # e
  BY <1>7 DEF E!LoadCreate
<1>9. EventCreateChecked(t)'
  BY <1>1, <1>3, <1>4, <1>6, <1>7, <1>8 DEF EventCreateChecked
<1> QED
  BY <1>2, <1>6, <1>9, EventRequestsApart, EventTakeKeeps

\* execute_event_action, its checks.
LEMMA EventLoadKeeps ==
  ASSUME EventInv, NEW t \in Thread, NEW u \in E!User, NEW e \in Event,
         NEW action \in E!Action, NEW s \in E!User \cup {Nobody},
         E!LoadAction(t, u, e, action, s)
  PROVE  EventInv'
<1> DEFINE q == [action |-> action, by |-> u, event |-> e, copy |-> event[e], assignee |-> s,
                 duty |-> {}]
<1>1. event[e] \in E!Row /\ s \in Staff \cup {Nobody}
  BY DEF EventInv, E!TypeOK, E!LoadAction, E!EnsureSecurityStaff
<1>2. /\ q \in E!Pending /\ q.action = action /\ q.event = e /\ q.copy = event[e]
      /\ q.by = u
  BY <1>1 DEF E!Pending
<1>3. EventTakes(t, q)
  BY DEF E!LoadAction, EventTakes
<1>4. event[e] # E!NoRow /\ E!May(u, event[e], action)
  BY DEF E!LoadAction
<1> HIDE DEF q
<1>5. eventRequest'[t] = q /\ event' = event
  BY <1>3 DEF EventTakes, EventInv, E!TypeOK
<1>6. EventActionChecked(t)'
  BY <1>1, <1>2, <1>4, <1>5 DEF EventActionChecked, E!Row
<1> QED
  BY <1>2, <1>3, <1>6, EventRequestsApart, EventTakeKeeps

\* create_event writes, with its messages or its ticket.
LEMMA EventWriteCreateKeeps ==
  ASSUME EventInv, NEW t \in Thread, E!WriteCreate(t) PROVE EventInv'
<1> DEFINE q == eventRequest[t]
           e == q.event
           row == q.copy
           entry == [action |-> "CREATE", by |-> q.by]
           line == Append(log[e], entry)
           count == E!Enqueued(told[e], q)
           tickets == IF E!Escalates(q) THEN ticket[e] + 1 ELSE ticket[e]
<1>1. q.action = "CREATE" /\ q \in E!Pending /\ EventCreateChecked(t)
  BY EventRequestsApart DEF E!WriteCreate, EventInv, E!TypeOK
<1>2. /\ e \in Event /\ row \in E!Row /\ q.by \in E!User /\ q.duty \subseteq Manager \cup Staff
      /\ log[e] \in Seq(E!Entry) /\ disposal[e] \in Seq(Staff)
      /\ told[e] \in [Manager \cup Staff -> Nat] /\ ticket[e] \in Nat
  BY <1>1 DEF E!Pending, EventInv, E!TypeOK
<1>3. /\ event' = [event EXCEPT ![e] = row]
      /\ log' = [log EXCEPT ![e] = line]
      /\ told' = [told EXCEPT ![e] = count]
      /\ ticket' = [ticket EXCEPT ![e] = tickets]
      /\ disposal' = disposal /\ active' = active
      /\ eventRequest' = [eventRequest EXCEPT ![t] = E!NoRequest]
  BY DEF E!WriteCreate
<1>4. \A d \in Event : <<event[d].by, event[d].key>> # <<row.by, row.key>>
  BY DEF E!WriteCreate, E!Unique
<1>5. /\ event[e] = E!NoRow /\ row.version = 1 /\ row.status = "REPORTED"
      /\ row.confirmed = Nobody
      /\ row.risk # "HIGH_RISK" => q.duty = {}
      /\ row.via = "ADAPTER" /\ row.type \in E!Dangerous => row.risk = "HIGH_RISK"
  BY <1>1 DEF EventCreateChecked
<1>6. log[e] = <<>> /\ disposal[e] = <<>>
  <2>1. EventRowInv(E!NoRow, log[e], disposal[e])
    BY <1>2, <1>5 DEF EventInv
  <2>2. Len(log[e]) = 0 /\ Len(disposal[e]) = 0
    BY <2>1, NoEventRowTyped DEF EventRowInv
  <2> QED
    BY <1>2, <2>2, EmptySeq
<1>7. ticket[e] = 0 /\ \A u \in Manager \cup Staff : told[e][u] = 0
  <2>1. Reached(E!NoRow, told[e], ticket[e])
    BY <1>2, <1>5 DEF EventInv
  <2>2. {u \in DOMAIN told[e] : told[e][u] > 0} = {} /\ ticket[e] # 1 /\ ticket[e] <= 1
    BY <2>1, NoEventRowTyped DEF Reached
  <2> QED
    BY <1>2, <2>2
<1>8. entry \in E!Entry /\ entry.action = "CREATE"
  BY <1>2 DEF E!Entry
<1> HIDE DEF entry
<1>9. line \in Seq(E!Entry) /\ Len(line) = 1 /\ \A a \in E!Action : E!Logged(line, a) = {}
  <2>1. Len(<<>>) = 0 /\ \A a : E!Logged(<<>>, a) = {}
    BY DEF E!Logged
  <2>2. line \in Seq(E!Entry) /\ Len(line) = Len(log[e]) + 1
    BY <1>2, <1>8, AppendedOne
  <2>3. \A a : E!Logged(line, a) =
                  E!Logged(log[e], a) \cup (IF entry.action = a THEN {Len(log[e]) + 1} ELSE {})
    BY <1>2, <1>8, LoggedAppend
  <2> HIDE DEF line
  <2> QED
    BY <1>6, <1>8, <2>1, <2>2, <2>3, EventRequestsApart
<1> HIDE DEF line, row
<1>10. EventRowInv(row, line, disposal[e])
  BY <1>5, <1>6, <1>9, NewEventAgrees
<1>11. /\ count \in [Manager \cup Staff -> Nat]
       /\ \A u \in Manager \cup Staff : count[u] = IF u \in q.duty THEN 1 ELSE 0
  BY <1>2, <1>7 DEF E!Enqueued
<1>12. tickets = IF row.risk = "HIGH_RISK" /\ q.duty = {} THEN 1 ELSE 0
  BY <1>7 DEF E!Escalates, row
<1> HIDE DEF count, tickets
<1>13. Reached(row, count, tickets)
  <2>1. {u \in DOMAIN count : count[u] > 0} = q.duty
    BY <1>2, <1>11
  <2> HIDE DEF q
  <2> QED
    BY <1>2, <1>5, <1>11, <1>12, <2>1 DEF Reached
<1>14. tickets \in Nat
  BY <1>12
<1>15. E!TypeOK'
  BY <1>2, <1>3, <1>9, <1>11, <1>14 DEF EventInv, E!TypeOK
<1>16. /\ log'[e] = line /\ disposal'[e] = disposal[e] /\ told'[e] = count /\ ticket'[e] = tickets
       /\ \A d \in Event : d # e => /\ log'[d] = log[d] /\ disposal'[d] = disposal[d]
                                    /\ told'[d] = told[d] /\ ticket'[d] = ticket[d]
  BY <1>2, <1>3 DEF EventInv, E!TypeOK
<1>17. \A x \in Thread : x # t /\ eventRequest[x].action = "CREATE" => eventRequest[x].event # e
  BY <1>1, EventRequestsApart DEF EventCreateChecked
<1>18. row.version = event[e].version + 1
  BY <1>5, NoEventRowTyped
<1>19. e \in Event /\ row \in E!Row
  BY <1>2 DEF row
<1> HIDE DEF e
<1>20. EventRowInv(row, log'[e], disposal'[e]) /\ Reached(row, told'[e], ticket'[e])
  BY <1>10, <1>13, <1>16
<1> QED
  BY <1>3, <1>4, <1>15, <1>16, <1>17, <1>18, <1>19, <1>20, EventWriteKeeps

\* execute_event_action writes.
LEMMA EventWriteActionKeeps ==
  ASSUME EventInv, NEW t \in Thread, E!WriteAction(t) PROVE EventInv'
<1> DEFINE q == eventRequest[t]
           e == q.event
           row == E!Changed(q.copy, q)
           entry == [action |-> q.action, by |-> q.by]
           line == Append(log[e], entry)
           handlers == IF q.action = "SUBMIT_DISPOSAL" THEN Append(disposal[e], q.by)
                       ELSE disposal[e]
<1>1. /\ q.action \in E!Action /\ q \in E!Pending /\ EventActionChecked(t)
      /\ event[e].version = q.copy.version
  BY EventRequestsApart DEF E!WriteAction, EventInv, E!TypeOK, E!Saves
<1>2. /\ e \in Event /\ event[e] \in E!Row /\ q.by \in E!User /\ log[e] \in Seq(E!Entry)
      /\ disposal[e] \in Seq(Staff)
  BY <1>1 DEF E!Pending, EventInv, E!TypeOK
<1>3. /\ event' = [event EXCEPT ![e] = row]
      /\ log' = [log EXCEPT ![e] = line]
      /\ disposal' = [disposal EXCEPT ![e] = handlers]
      /\ told' = told /\ ticket' = ticket /\ active' = active
      /\ eventRequest' = [eventRequest EXCEPT ![t] = E!NoRequest]
  BY DEF E!WriteAction
<1>4. q.copy = event[e] /\ E!May(q.by, event[e], q.action) /\ event[e] # E!NoRow
  BY <1>1 DEF EventActionChecked
<1>5. /\ EventRowInv(event[e], log[e], disposal[e])
      /\ Reached(event[e], told[e], ticket[e])
  BY <1>2 DEF EventInv
<1>6. EventRowInv(row, line, handlers)
  BY <1>1, <1>2, <1>4, <1>5, EventChangedAgrees
<1>7. EventEffect(event[e], q, row)
  BY <1>1, <1>2, <1>4, EventChangedDoes
<1>8. line \in Seq(E!Entry) /\ handlers \in Seq(Staff)
  <2>1. entry \in E!Entry
    BY <1>1, <1>2 DEF E!Entry
  <2>2. q.action = "SUBMIT_DISPOSAL" => q.by \in Staff
    BY <1>4 DEF E!May
  <2> HIDE DEF entry
  <2> QED
    BY <1>2, <2>1, <2>2
<1>9. /\ row \in E!Row /\ row.version = event[e].version + 1
      /\ row.by = event[e].by /\ row.key = event[e].key
      /\ row.risk = event[e].risk /\ row.via = event[e].via /\ row.type = event[e].type
  BY <1>7 DEF EventEffect
<1>10. Reached(row, told[e], ticket[e])
  BY <1>5, <1>9 DEF Reached
<1> HIDE DEF line, row, handlers
<1>11. E!TypeOK'
  BY <1>2, <1>3, <1>8, <1>9 DEF EventInv, E!TypeOK
<1>12. /\ log'[e] = line /\ disposal'[e] = handlers /\ told'[e] = told[e] /\ ticket'[e] = ticket[e]
       /\ \A d \in Event : d # e => /\ log'[d] = log[d] /\ disposal'[d] = disposal[d]
                                    /\ told'[d] = told[d] /\ ticket'[d] = ticket[d]
  BY <1>2, <1>3 DEF EventInv, E!TypeOK
<1>13. \A x \in Thread : x # t /\ eventRequest[x].action = "CREATE" => eventRequest[x].event # e
  BY <1>4 DEF EventInv, EventCreateChecked
<1> HIDE DEF e
<1> QED
  BY <1>2, <1>3, <1>4, <1>6, <1>9, <1>10, <1>11, <1>12, <1>13, EventWriteKeeps

\* Every step keeps the invariant.
LEMMA EventInvStep == EventInv /\ [E!Next]_eventVars => EventInv'
<1> SUFFICES ASSUME EventInv, [E!Next]_eventVars PROVE EventInv'
  OBVIOUS
<1>1. CASE UNCHANGED eventVars
  BY <1>1
  DEF eventVars, EventInv, E!TypeOK, EventCreateChecked, EventActionChecked, OneEvent
<1> QED
  BY <1>1, EventLoadCreateKeeps, EventLoadKeeps, EventWriteCreateKeeps,
     EventWriteActionKeeps,
     EventAbortKeeps, SetActiveKeeps DEF E!Next

-----------------------------------------------------------------------------
(* What is offered.                                                        *)

\* The actions offered for a task are those that may be done.
LEMMA TaskOffers == TaskInv => OffersAgree
<1> SUFFICES ASSUME TaskInv, NEW k \in Stored, NEW u \in User
             PROVE  LET accepted == {a \in TaskAction : May(u, task[k], a)} IN
                    /\ k \in Listed(u) <=> Sees(u, task[k])
                    /\ Offered(u, task[k]) \subseteq accepted
                    /\ accepted \ Offered(u, task[k]) \subseteq
                           IF u \in Manager /\ IsAssignee(u, task[k]) THEN {"COMPLETE"} ELSE {}
  BY DEF OffersAgree
<1> DEFINE row == task[k]
<1>1. k \in Task /\ row # NoRow
  BY DEF Stored
<1>2. k \in Listed(u) <=> Sees(u, row)
  BY <1>1 DEF Listed, Sees, User
<1> HIDE DEF row
<1>3. ASSUME NEW a \in Offered(u, row) PROVE a \in TaskAction /\ May(u, row, a)
  BY <1>3, ActionsNamed DEF Offered, May, Sees, IsAssignee, TRANSITIONS
<1>4. ASSUME NEW a \in TaskAction, May(u, row, a), a \notin Offered(u, row)
      PROVE  u \in Manager /\ IsAssignee(u, row) /\ a = "COMPLETE"
  <2>1. a \in {"ASSIGN", "START", "SUBMIT_RECORDS", "COMPLETE", "ADD_RECORD"}
    BY ActionsNamed
  <2>2. CASE a = "ADD_RECORD"
    BY <1>4, <2>2 DEF Offered, May
  <2>3. CASE a # "ADD_RECORD"
    <3>1. PICK m \in TRANSITIONS : m[1] = row.status /\ m[2] = a
      BY <1>4, <2>1, <2>3 DEF May
    <3> QED
      BY <1>4, <2>1, <3>1 DEF Offered, May, TRANSITIONS
  <2> QED
    BY <2>2, <2>3
<1> QED
  BY <1>2, <1>3, <1>4 DEF row

\* The actions offered for an event are those that may be done.
LEMMA EventOffers == E!OffersAgree
<1> SUFFICES ASSUME NEW e \in E!Stored, NEW u \in E!User
             PROVE  LET accepted == {a \in E!Action : E!May(u, event[e], a)} IN
                    /\ e \in E!Listed(u) <=> E!Sees(u, event[e])
                    /\ E!Offered(u, event[e]) \subseteq accepted
                    /\ accepted \ E!Offered(u, event[e]) \subseteq
                           IF E!Unconfirmed(event[e]) THEN {"RETURN"} ELSE {"GRADE_CONFIRM"}
  BY DEF E!OffersAgree
<1> DEFINE row == event[e]
<1>1. e \in Event /\ row # E!NoRow
  BY DEF E!Stored
<1>2. e \in E!Listed(u) <=> E!Sees(u, row)
  BY <1>1 DEF E!Listed, E!Sees, E!User
<1> HIDE DEF row
<1>3. ASSUME NEW a \in E!Offered(u, row) PROVE a \in E!Action /\ E!May(u, row, a)
  BY <1>3, EventActionsNamed DEF E!Offered, E!May, E!Sees, E!TRANSITIONS, E!Unconfirmed
<1>4. ASSUME NEW a \in E!Action, E!May(u, row, a), a \notin E!Offered(u, row)
      PROVE  a \in IF E!Unconfirmed(row) THEN {"RETURN"} ELSE {"GRADE_CONFIRM"}
  <2>1. a \in {"ASSIGN", "SUBMIT_DISPOSAL", "REVIEW_PASS", "RETURN", "GRADE_CONFIRM"}
    BY EventActionsNamed
  <2>2. CASE a = "GRADE_CONFIRM"
    BY <1>4, <2>2 DEF E!Offered, E!May, E!Unconfirmed
  <2>3. CASE a # "GRADE_CONFIRM"
    <3>1. PICK m \in E!TRANSITIONS : m[1] = row.status /\ m[2] = a
      BY <1>4, <2>3 DEF E!May
    <3> QED
      BY <1>4, <2>1, <3>1 DEF E!Offered, E!May, E!TRANSITIONS, E!Unconfirmed
  <2> QED
    BY <2>2, <2>3
<1> QED
  BY <1>2, <1>3, <1>4 DEF row

-----------------------------------------------------------------------------
(* The theorems.                                                           *)

\* What holds of the tasks between any two steps of requests.
THEOREM TasksInvariant == InspectionSpec => []TaskInv
<1>1. InspectionInit => TaskInv
  BY TaskInvInit DEF InspectionInit
<1>2. TaskInv /\ [InspectionNext]_<<vars, eventVars>> => TaskInv'
  <2> SUFFICES ASSUME TaskInv, [InspectionNext]_<<vars, eventVars>> PROVE TaskInv'
    OBVIOUS
  <2>1. [Next]_vars
    BY DEF InspectionNext, TaskStep, EventStep
  <2> QED
    BY <2>1, TaskInvStep
<1> QED
  BY <1>1, <1>2, PTL DEF InspectionSpec

\* Two tasks that are to be executed share a point at an instant only if neither
\* could be seen when the other was checked, or the later one has no times.
THEOREM PlansSeen == InspectionSpec => []PlansClashOnlyUnseen
  BY TasksInvariant, PlansApart, PTL

\* No change of a task is lost, however requests interleave.
THEOREM TimelinesAgree == InspectionSpec => []TimelineAgrees
<1>1. TaskInv => TimelineAgrees
  BY DEF TaskInv, RowInv, TimelineAgrees
<1> QED
  BY <1>1, TasksInvariant, PTL

\* What holds of the events between any two steps of requests.
THEOREM EventsInvariant == InspectionSpec => []EventInv
<1>1. InspectionInit => EventInv
  BY EventInvInit DEF InspectionInit
<1>2. EventInv /\ [InspectionNext]_<<vars, eventVars>> => EventInv'
  <2> SUFFICES ASSUME EventInv, [InspectionNext]_<<vars, eventVars>> PROVE EventInv'
    OBVIOUS
  <2>1. [E!Next]_eventVars
    BY DEF InspectionNext, TaskStep, EventStep
  <2> QED
    BY <2>1, EventInvStep
<1> QED
  BY <1>1, <1>2, PTL DEF InspectionSpec

\* Every report of high risk reaches someone once, and no other does; and what is
\* dangerous and came through the agent's adapter is of high risk
\* (SecurityEventService.create_event, normalize_security_event).
THEOREM ReportsReachSomeone == InspectionSpec => []HighRiskReachesSomeone
<1>1. EventInv => HighRiskReachesSomeone
  BY
  DEF EventInv, Reached, OneEvent, HighRiskReachesSomeone, E!HighRiskReachesSomeone,
      E!Stored
<1> QED
  BY <1>1, EventsInvariant, PTL

\* An event is closed as it was handled and reviewed.
THEOREM EventsClosedAsReviewed == InspectionSpec => []ClosedAsReviewed
<1>1. EventInv => ClosedAsReviewed
  BY RowInvReviewed DEF EventInv, ClosedAsReviewed, E!ClosedAsReviewed, E!Stored
<1> QED
  BY <1>1, EventsInvariant, PTL

\* What users are offered is what they may do.
THEOREM OffersKept == InspectionSpec => []OffersAgreeInBoth
<1>1. TaskInv => OffersAgreeInBoth
  BY TaskOffers, EventOffers DEF OffersAgreeInBoth
<1> QED
  BY <1>1, TasksInvariant, PTL
=============================================================================
