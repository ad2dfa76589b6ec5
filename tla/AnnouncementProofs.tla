------------------------- MODULE AnnouncementProofs -------------------------
(***************************************************************************)
(* Who can read an announcement was told of it, and what goes out was      *)
(* approved as it is, for any numbers of announcements, residents,         *)
(* requests and versions.                                                  *)
(*                                                                         *)
(* The argument: a request writes the changed copy, guarded only by the    *)
(* version.  Versions grow with every change of the row, so a copy of the  *)
(* current version is the row (Current below): the request moves from the  *)
(* status that the row has, and the snapshot of a publication is the one   *)
(* its messages went to, since nothing but a withdrawal follows it.        *)
(***************************************************************************)
EXTENDS Announcement, SequenceTheorems, TLAPS

Out == {"PUBLISHED", "WITHDRAWN"}

\* A status leaves room for the versions that can follow it.
Room(row) ==
    row.version <= CASE row.status = "PENDING_REVIEW" -> MaxVersion - 1
                     [] row.status = "PUBLISHED"      -> MaxVersion + 1
                     [] row.status = "WITHDRAWN"      -> MaxVersion + 2
                     [] OTHER                         -> MaxVersion

\* Load let the action through.
Allowed(action, row) ==
    /\ action \in {"EDIT", "SUBMIT_REVIEW"} => row.version < MaxDraft
    /\ action = "SCHEDULE" => row.version < MaxVersion

\* The copy of a pending request is the row, or an earlier version of it.
Current(q) ==
    /\ q.copy.version <= ann[q.ann].version
    /\ q.copy.version = ann[q.ann].version => q.copy = ann[q.ann]
    /\ \E m \in Moves : m[1] = q.copy.status /\ m[2] = q.action
    /\ Allowed(q.action, q.copy)
    /\ q.action = "WITHDRAW" => q.audience = {}

\* What the messages of a row say, given its status and its snapshot.
Letters(status, members, r) ==
    IF r \in members /\ status = "PUBLISHED" THEN <<"PUBLISHED">>
    ELSE IF r \in members /\ status = "WITHDRAWN" THEN <<"PUBLISHED", "WITHDRAWN">>
    ELSE <<>>

\* What the reviews of a row say of an approved one.
Approved(row, reviews) ==
    \E v \in Version :
        /\ row.edited < v /\ v <= row.version /\ <<"APPROVE", v>> \in reviews
        /\ \A w \in Version : <<"SCHEDULE", w>> \in reviews => v < w

\* Of one that has gone out.
Authorized(row, reviews, now) ==
    \E v, w \in Version :
        /\ row.edited < v /\ v < w /\ <<"APPROVE", v>> \in reviews
        /\ \/ <<"PUBLISH", w>> \in reviews
           \/ /\ <<"SCHEDULE", w>> \in reviews /\ row.scheduled <= now
              /\ \E x \in w + 1..row.version : <<"SCHEDULED_EXECUTION", x>> \in reviews

\* Of any.
Reviewed(row, reviews, now) ==
    /\ row.edited <= row.version
    /\ \A e \in reviews : e[2] <= row.version
    /\ row.status \notin {"APPROVED"} \cup Out =>
          \A w \in Version : <<"SCHEDULE", w>> \notin reviews
    /\ row.status = "APPROVED" => Approved(row, reviews)
    /\ row.status \in Out => Authorized(row, reviews, now)

\* The inductive invariant.
Inv ==
    /\ TypeOK
    /\ \A a \in Ann : Room(ann[a])
    /\ \A t \in Thread : request[t] # NoRequest => Current(request[t])
    /\ \A a \in Ann, r \in Resident : message[a][r] = Letters(ann[a].status, snapshot[a], r)
    /\ \A a \in Ann : Reviewed(ann[a], review[a], clock)

-----------------------------------------------------------------------------
\* A legal move of a row, by a request that Load let through.
LEMMA MoveTyped ==
  ASSUME NEW row \in Row, Room(row), NEW m \in Moves, m[1] = row.status,
         Allowed(m[2], row), NEW at \in 0..MaxTime
  PROVE  /\ Changed(row, m, at) \in Row /\ Room(Changed(row, m, at))
         /\ row.version + 1 \in Version
         /\ Changed(row, m, at).version = row.version + 1
         /\ Changed(row, m, at).status = m[3]
         /\ Changed(row, m, at).scheduled = IF m[2] = "SCHEDULE" THEN at ELSE row.scheduled
         /\ Changed(row, m, at).edited = IF m[2] = "EDIT" THEN row.version + 1 ELSE row.edited
  <1>1. /\ row.version \in Version /\ row.edited \in Version /\ row.scheduled \in 0..MaxTime
        /\ m[2] \in Action /\ m[3] \in Status
    BY DEF Row, Moves, Action, Status
  <1>2. row.version + 1 \in Version /\ row.version + 1 <= MaxVersion + 2
    BY <1>1, AnnouncementAssumption DEF Room, Moves, Version, Allowed
  <1>3. /\ Changed(row, m, at).status = m[3]
        /\ Changed(row, m, at).version = row.version + 1
        /\ Changed(row, m, at).edited = IF m[2] = "EDIT" THEN row.version + 1 ELSE row.edited
        /\ Changed(row, m, at).scheduled = IF m[2] = "SCHEDULE" THEN at ELSE row.scheduled
    BY DEF Row, Changed
  <1>4. Changed(row, m, at) \in Row
    BY <1>1, <1>2 DEF Row, Changed
  <1>5. Room(Changed(row, m, at))
    BY <1>1, <1>3, AnnouncementAssumption DEF Room, Moves, Version, Allowed
  <1> QED BY <1>2, <1>3, <1>4, <1>5

\* A legal move and the review that records it leave a row reviewed.
LEMMA MoveReviewed ==
  ASSUME NEW row \in Row, Room(row), NEW m \in Moves, m[1] = row.status,
         Allowed(m[2], row), NEW at \in 0..MaxTime, NEW now \in 1..MaxTime,
         NEW reviews \in SUBSET ((Reviewing \cup {"SCHEDULED_EXECUTION"}) \X Version),
         Reviewed(row, reviews, now)
  PROVE  Reviewed(Changed(row, m, at),
                  IF m[2] \in Reviewing THEN reviews \cup {<<m[2], row.version + 1>>}
                  ELSE reviews, now)
  <1> DEFINE new == Changed(row, m, at)
             all == IF m[2] \in Reviewing THEN reviews \cup {<<m[2], row.version + 1>>}
                    ELSE reviews
  <1>1. /\ new.status = m[3] /\ new.version = row.version + 1
        /\ new.edited = IF m[2] = "EDIT" THEN row.version + 1 ELSE row.edited
        /\ new.scheduled = IF m[2] = "SCHEDULE" THEN at ELSE row.scheduled
        /\ row.version + 1 \in Version
    BY MoveTyped
  <1>2. /\ row.version \in Nat /\ row.edited \in Nat /\ row.scheduled \in Nat /\ now \in Nat
        /\ \A e \in reviews : e[2] \in Nat
        /\ \A v \in Version : v \in Nat
    BY DEF Row, Version
  <1> HIDE DEF new
  <1>3. new.edited <= new.version
    BY <1>1, <1>2 DEF Reviewed
  <1>4. \A e \in all : e[2] <= new.version
    BY <1>1, <1>2 DEF Reviewed
  <1>5. ASSUME new.status \notin {"APPROVED"} \cup Out
        PROVE  \A w \in Version : <<"SCHEDULE", w>> \notin all
    <2>1. m[2] # "SCHEDULE" /\ row.status \notin {"APPROVED"} \cup Out
      BY <1>1, <1>5 DEF Moves, Out
    <2> QED BY <2>1 DEF Reviewed
  <1>6. ASSUME new.status = "APPROVED"
        PROVE  Approved(new, all)
    <2>1. CASE m[2] = "APPROVE"
      <3>1. row.status \notin {"APPROVED"} \cup Out /\ m[2] \in Reviewing
        BY <2>1 DEF Moves, Out, Reviewing, Action
      <3>2. \A w \in Version : <<"SCHEDULE", w>> \notin all
        BY <2>1, <3>1 DEF Reviewed
      <3>3. new.edited < row.version + 1
        BY <1>1, <1>2, <2>1 DEF Reviewed
      <3> QED BY <1>1, <1>2, <2>1, <3>1, <3>2, <3>3 DEF Approved
    <2>2. CASE m[2] = "SCHEDULE"
      <3>1. row.status = "APPROVED"
        BY <2>2 DEF Moves
      <3>2. PICK v \in Version :
              /\ row.edited < v /\ v <= row.version /\ <<"APPROVE", v>> \in reviews
              /\ \A w \in Version : <<"SCHEDULE", w>> \in reviews => v < w
        BY <3>1 DEF Reviewed, Approved
      <3>3. \A w \in Version : <<"SCHEDULE", w>> \in all => v < w
        BY <1>2, <3>2
      <3> QED BY <1>1, <1>2, <2>2, <3>2, <3>3 DEF Approved
    <2>3. m[2] = "APPROVE" \/ m[2] = "SCHEDULE"
      <3>1. m[3] = "APPROVED"
        BY <1>1, <1>6
      <3> QED BY <3>1 DEF Moves
    <2> QED BY <2>1, <2>2, <2>3
  <1>7. ASSUME new.status \in Out
        PROVE  Authorized(new, all, now)
    <2>1. CASE m[2] = "PUBLISH"
      <3>1. row.status = "APPROVED" /\ m[2] \in Reviewing
        BY <2>1 DEF Moves, Reviewing, Action
      <3>2. PICK v \in Version :
              row.edited < v /\ v <= row.version /\ <<"APPROVE", v>> \in reviews
        BY <3>1 DEF Reviewed, Approved
      <3>3. v < row.version + 1 /\ <<"PUBLISH", row.version + 1>> \in all /\ new.edited < v
        BY <1>1, <1>2, <2>1, <3>1, <3>2
      <3> QED BY <1>1, <3>2, <3>3 DEF Authorized
    <2>2. CASE m[2] = "WITHDRAW"
      <3>1. row.status \in Out /\ all = reviews
        BY <2>2 DEF Moves, Out, Reviewing, Action
      <3>2. PICK v \in Version, w \in Version :
              /\ row.edited < v /\ v < w /\ <<"APPROVE", v>> \in reviews
              /\ \/ <<"PUBLISH", w>> \in reviews
                 \/ /\ <<"SCHEDULE", w>> \in reviews /\ row.scheduled <= now
                    /\ \E x \in w + 1..row.version : <<"SCHEDULED_EXECUTION", x>> \in reviews
        BY <3>1 DEF Reviewed, Authorized
      <3>3. \A x \in w + 1..row.version : x \in w + 1..new.version
        BY <1>1, <1>2
      <3>4. new.edited = row.edited /\ new.scheduled = row.scheduled
        BY <1>1, <2>2
      <3> HIDE DEF all
      <3> QED BY <3>1, <3>2, <3>3, <3>4 DEF Authorized
    <2> QED BY <1>1, <1>7, <2>1, <2>2 DEF Moves, Out
  <1> QED BY <1>3, <1>4, <1>5, <1>6, <1>7 DEF Reviewed, new

\* So does the publication of one that is due and that a manager has scheduled.
LEMMA DueReviewed ==
  ASSUME NEW row \in Row, Room(row), row.status = "APPROVED",
         NEW now \in 1..MaxTime, row.scheduled <= now,
         NEW reviews \in SUBSET ((Reviewing \cup {"SCHEDULED_EXECUTION"}) \X Version),
         Reviewed(row, reviews, now),
         NEW w \in Version, <<"SCHEDULE", w>> \in reviews
  PROVE  Reviewed(Changed(row, <<"APPROVED", "PUBLISH", "PUBLISHED">>, 0),
                  reviews \cup {<<"SCHEDULED_EXECUTION", row.version + 1>>}, now)
  <1> DEFINE m == <<"APPROVED", "PUBLISH", "PUBLISHED">>
             new == Changed(row, m, 0)
             all == reviews \cup {<<"SCHEDULED_EXECUTION", row.version + 1>>}
  <1>1. /\ new.status = "PUBLISHED" /\ new.version = row.version + 1
        /\ new.edited = row.edited /\ new.scheduled = row.scheduled
        /\ row.version + 1 \in Version
    <2>1. m \in Moves /\ m[1] = row.status /\ Allowed(m[2], row) /\ 0 \in 0..MaxTime
      BY AnnouncementAssumption DEF Moves, Allowed
    <2> HIDE DEF m
    <2>2. /\ new.status = m[3] /\ new.version = row.version + 1
          /\ new.edited = IF m[2] = "EDIT" THEN row.version + 1 ELSE row.edited
          /\ new.scheduled = IF m[2] = "SCHEDULE" THEN 0 ELSE row.scheduled
          /\ row.version + 1 \in Version
      BY <2>1, MoveTyped
    <2> QED BY <2>2 DEF m
  <1>2. /\ row.version \in Nat /\ row.edited \in Nat /\ row.scheduled \in Nat /\ now \in Nat
        /\ \A e \in reviews : e[2] \in Nat
        /\ \A v \in Version : v \in Nat
    BY DEF Row, Version
  <1> HIDE DEF new
  <1>3. new.edited <= new.version /\ \A e \in all : e[2] <= new.version
    BY <1>1, <1>2 DEF Reviewed
  <1>4. PICK v \in Version :
          /\ row.edited < v /\ v <= row.version /\ <<"APPROVE", v>> \in reviews
          /\ \A x \in Version : <<"SCHEDULE", x>> \in reviews => v < x
    BY DEF Reviewed, Approved
  <1>5. row.version + 1 \in w + 1..new.version
    <2>1. <<"SCHEDULE", w>>[2] <= row.version
      BY DEF Reviewed
    <2> QED BY <1>1, <1>2, <2>1
  <1>6. Authorized(new, all, now)
    BY <1>1, <1>4, <1>5 DEF Authorized
  <1> QED BY <1>1, <1>3, <1>6 DEF Reviewed, Out, new

-----------------------------------------------------------------------------
\* The sequences that messages are.
LEMMA OneOrTwo ==
  ASSUME NEW S, NEW e \in S, NEW f \in S
  PROVE  /\ <<>> \in Seq(S) /\ <<e>> \in Seq(S) /\ <<e, f>> \in Seq(S)
         /\ Append(<<>>, e) = <<e>> /\ Append(<<e>>, f) = <<e, f>>
  <1>1. <<>> \in Seq(S) /\ <<e>> \in Seq(S) /\ <<e, f>> \in Seq(S)
    OBVIOUS
  <1>2. Append(<<>>, e) = <<e>>
    OBVIOUS
  <1>3. Append(<<e>>, f) = <<e, f>>
    <2>1. /\ Append(<<e>>, f) \in Seq(S) /\ Len(Append(<<e>>, f)) = 2
          /\ Append(<<e>>, f)[1] = e /\ Append(<<e>>, f)[2] = f
      BY <1>1, AppendProperties
    <2>2. Len(<<e, f>>) = 2 /\ <<e, f>>[1] = e /\ <<e, f>>[2] = f
      OBVIOUS
    <2> DEFINE s == Append(<<e>>, f)
               t == <<e, f>>
    <2>3. /\ s \in Seq(S) /\ t \in Seq(S) /\ Len(s) = 2 /\ Len(t) = 2
          /\ s[1] = t[1] /\ s[2] = t[2]
      BY <1>1, <2>1, <2>2
    <2> HIDE DEF s, t
    <2>4. \A i \in 1..Len(s) : s[i] = t[i]
      <3>1. \A i \in 1..Len(s) : i = 1 \/ i = 2
        BY <2>3
      <3> QED BY <2>3, <3>1
    <2>5. s = t
      BY <2>3, <2>4, SeqEqual
    <2> QED BY <2>5 DEF s, t
  <1> QED BY <1>1, <1>2, <1>3

\* The three that an announcement can leave.
LEMMA LettersAre ==
  /\ <<>> \in Seq({"PUBLISHED", "WITHDRAWN"})
  /\ <<"PUBLISHED">> \in Seq({"PUBLISHED", "WITHDRAWN"})
  /\ <<"PUBLISHED", "WITHDRAWN">> \in Seq({"PUBLISHED", "WITHDRAWN"})
  /\ Append(<<>>, "PUBLISHED") = <<"PUBLISHED">>
  /\ Append(<<"PUBLISHED">>, "WITHDRAWN") = <<"PUBLISHED", "WITHDRAWN">>
  <1> DEFINE Event == {"PUBLISHED", "WITHDRAWN"}
  <1>1. "PUBLISHED" \in Event /\ "WITHDRAWN" \in Event
    OBVIOUS
  <1> HIDE DEF Event
  <1>2. \A e \in Event, f \in Event :
          /\ <<>> \in Seq(Event) /\ <<e>> \in Seq(Event) /\ <<e, f>> \in Seq(Event)
          /\ Append(<<>>, e) = <<e>> /\ Append(<<e>>, f) = <<e, f>>
    BY OneOrTwo
  <1>3. /\ <<>> \in Seq(Event) /\ <<"PUBLISHED">> \in Seq(Event)
        /\ <<"PUBLISHED", "WITHDRAWN">> \in Seq(Event)
        /\ Append(<<>>, "PUBLISHED") = <<"PUBLISHED">>
        /\ Append(<<"PUBLISHED">>, "WITHDRAWN") = <<"PUBLISHED", "WITHDRAWN">>
    BY <1>1, <1>2
  <1> QED BY <1>3 DEF Event

LEMMA LettersTyped ==
  \A status, members, r : Letters(status, members, r) \in Seq({"PUBLISHED", "WITHDRAWN"})
  BY LettersAre DEF Letters

\* What a publication tells to those who were told of nothing.
LEMMA PublicationTells ==
  ASSUME NEW a \in Ann, NEW members \in SUBSET Resident,
         \A r \in Resident : message[a][r] = <<>>
  PROVE  \A r \in Resident :
           Told(a, members, "PUBLISHED")[r] = Letters("PUBLISHED", members, r)
  <1> SUFFICES ASSUME NEW r \in Resident
               PROVE  Told(a, members, "PUBLISHED")[r] = Letters("PUBLISHED", members, r)
    OBVIOUS
  <1>1. CASE r \in members
    <2>1. "PUBLISHED" \notin {message[a][r][i] : i \in DOMAIN message[a][r]}
      OBVIOUS
    <2>2. Told(a, members, "PUBLISHED")[r] = Append(<<>>, "PUBLISHED")
      BY <1>1, <2>1 DEF Told
    <2> QED BY <1>1, <2>2, LettersAre DEF Letters
  <1>2. CASE r \notin members
    BY <1>2 DEF Told, Letters
  <1> QED BY <1>1, <1>2

\* What a withdrawal tells to those who were told of the publication.
LEMMA WithdrawalTells ==
  ASSUME NEW a \in Ann, NEW members \in SUBSET Resident,
         \A r \in Resident : message[a][r] = Letters("PUBLISHED", members, r)
  PROVE  \A r \in Resident :
           Told(a, members, "WITHDRAWN")[r] = Letters("WITHDRAWN", members, r)
  <1> SUFFICES ASSUME NEW r \in Resident
               PROVE  Told(a, members, "WITHDRAWN")[r] = Letters("WITHDRAWN", members, r)
    OBVIOUS
  <1>1. CASE r \in members
    <2>1. message[a][r] = <<"PUBLISHED">>
      BY <1>1 DEF Letters
    <2>2. "WITHDRAWN" \notin {message[a][r][i] : i \in DOMAIN message[a][r]}
      BY <2>1
    <2>3. Told(a, members, "WITHDRAWN")[r] = Append(<<"PUBLISHED">>, "WITHDRAWN")
      BY <1>1, <2>1, <2>2 DEF Told
    <2> QED BY <1>1, <2>3, LettersAre DEF Letters
  <1>2. CASE r \notin members
    BY <1>2 DEF Told, Letters
  <1> QED BY <1>1, <1>2

LEMMA InitInv == Init => Inv
  <1> SUFFICES ASSUME Init PROVE Inv
    OBVIOUS
  <1>1. TypeOK
    BY AnnouncementAssumption
    DEF Init, TypeOK, Row, NoRow, Version, Status
  <1>2. \A a \in Ann : Room(ann[a]) /\ Reviewed(ann[a], review[a], clock)
    BY AnnouncementAssumption DEF Init, Room, NoRow, Reviewed, Out
  <1>3. \A a \in Ann, r \in Resident : message[a][r] = Letters(ann[a].status, snapshot[a], r)
    BY DEF Init, NoRow, Letters
  <1> QED BY <1>1, <1>2, <1>3 DEF Inv, Init

-----------------------------------------------------------------------------
\* A request that is loaded has the row as its copy.
LEMMA LoadCurrent ==
  ASSUME Inv, NEW t \in Thread, NEW a \in Ann, Load(t, a)
  PROVE  \E q \in Pending : request' = [request EXCEPT ![t] = q] /\ Current(q)
  <1>1. PICK m \in Moves :
          /\ m[1] = ann[a].status
          /\ m[2] \in {"EDIT", "SUBMIT_REVIEW"} => ann[a].version < MaxDraft
          /\ m[2] = "SCHEDULE" => ann[a].version < MaxVersion
          /\ \E at \in Times(m[2]), audience \in Audiences(m[2]) :
                request' = [request EXCEPT ![t] =
                    [ann |-> a, action |-> m[2], copy |-> ann[a], at |-> at,
                     audience |-> audience]]
    BY DEF Load
  <1>2. PICK at \in Times(m[2]), audience \in Audiences(m[2]) :
          request' = [request EXCEPT ![t] =
              [ann |-> a, action |-> m[2], copy |-> ann[a], at |-> at, audience |-> audience]]
    BY <1>1
  <1> DEFINE q == [ann |-> a, action |-> m[2], copy |-> ann[a], at |-> at, audience |-> audience]
  <1>3. ann[a] \in Row /\ clock \in 1..MaxTime
    BY DEF Inv, TypeOK
  <1>4. at \in 0..MaxTime
    BY <1>3, AnnouncementAssumption DEF Times
  <1>5. audience \in SUBSET Resident /\ (m[2] = "WITHDRAW" => audience = {})
    BY DEF Audiences, Resolving
  <1>6. m[2] \in Action
    BY DEF Action
  <1>7. q \in Pending
    BY <1>3, <1>4, <1>5, <1>6 DEF Pending
  <1>8. Current(q)
    <2>1. ann[a].version \in Nat
      BY <1>3 DEF Row, Version
    <2>2. /\ q.copy = ann[a] /\ q.ann = a /\ q.action = m[2] /\ q.audience = audience
      OBVIOUS
    <2>3. Allowed(m[2], ann[a])
      BY <1>1 DEF Allowed
    <2> HIDE DEF q
    <2> QED BY <1>1, <1>5, <2>1, <2>2, <2>3 DEF Current
  <1> QED BY <1>2, <1>7, <1>8

\* Others' copies remain what they were when a row moves to its next version.
LEMMA OthersStale ==
  ASSUME Inv, NEW A \in SUBSET Ann, NEW new \in [Ann -> Row],
         ann' = [b \in Ann |-> IF b \in A THEN new[b] ELSE ann[b]],
         \A b \in A : new[b].version = ann[b].version + 1,
         NEW t \in Thread, request[t] # NoRequest
  PROVE  Current(request[t])'
                                \/ request'[t] # request[t]
  <1> SUFFICES ASSUME request'[t] = request[t] PROVE Current(request[t])'
    OBVIOUS
  <1> DEFINE q == request[t]
  <1>1. q \in Pending /\ Current(q)
    BY DEF Inv, TypeOK
  <1>2. q.ann \in Ann /\ q.copy.version \in Nat /\ ann[q.ann].version \in Nat
    BY <1>1 DEF Pending, Row, Version, Inv, TypeOK
  <1>3. CASE q.ann \in A
    <2>1. ann'[q.ann].version = ann[q.ann].version + 1
      BY <1>2, <1>3
    <2> QED BY <1>1, <1>2, <2>1 DEF Current
  <1>4. CASE q.ann \notin A
    <2>1. ann'[q.ann] = ann[q.ann]
      BY <1>2, <1>4
    <2> QED BY <1>1, <1>2, <2>1 DEF Current
  <1> QED BY <1>3, <1>4

\* What a request writes is a legal move of the row as it is.
LEMMA WriteMoves ==
  ASSUME Inv, NEW t \in Thread, Write(t)
  PROVE  LET q == request[t]
             a == q.ann IN
         /\ q \in Pending /\ a \in Ann /\ ann[a] \in Row /\ Current(q)
         /\ \E m \in Moves :
               /\ m[1] = ann[a].status /\ m[2] = q.action /\ Allowed(m[2], ann[a])
               /\ ann' = [ann EXCEPT ![a] = Changed(ann[a], m, q.at)]
               /\ review' = [review EXCEPT ![a] =
                     IF m[2] \in Reviewing THEN review[a] \cup {<<m[2], ann[a].version + 1>>}
                     ELSE review[a]]
  <1> DEFINE q == request[t]
             a == q.ann
  <1>1. q \in Pending /\ Current(q)
    BY DEF Write, Inv, TypeOK
  <1>2. a \in Ann /\ ann[a] \in Row
    BY <1>1 DEF Pending, Inv, TypeOK
  <1>3. q.copy = ann[a]
    BY <1>1 DEF Write, Fresh, Current
  <1>4. PICK m \in Moves :
          /\ m[1] = q.copy.status /\ m[2] = q.action
          /\ ann' = [ann EXCEPT ![a] = Changed(q.copy, m, q.at)]
    BY DEF Write
  <1>5. review' = [review EXCEPT ![a] =
            IF q.action \in Reviewing THEN review[a] \cup {<<q.action, q.copy.version + 1>>}
            ELSE review[a]]
    BY DEF Write
  <1>6. Allowed(m[2], ann[a])
    BY <1>1, <1>3, <1>4 DEF Current
  <1> HIDE DEF q, a
  <1>7. \E n \in Moves :
           /\ n[1] = ann[a].status /\ n[2] = q.action /\ Allowed(n[2], ann[a])
           /\ ann' = [ann EXCEPT ![a] = Changed(ann[a], n, q.at)]
           /\ review' = [review EXCEPT ![a] =
                 IF n[2] \in Reviewing THEN review[a] \cup {<<n[2], ann[a].version + 1>>}
                 ELSE review[a]]
    BY <1>3, <1>4, <1>5, <1>6
  <1> QED BY <1>1, <1>2, <1>7 DEF q, a

\* A move that is no publication and no withdrawal is between statuses that
\* nobody has been told of.
LEMMA QuietMoves ==
  ASSUME NEW m \in Moves
  PROVE  /\ m[2] = "PUBLISH" => m[1] = "APPROVED" /\ m[3] = "PUBLISHED"
         /\ m[2] = "WITHDRAW" => m[1] = "PUBLISHED" /\ m[3] = "WITHDRAWN"
         /\ m[2] \notin {"PUBLISH", "WITHDRAW"} => m[1] \notin Out /\ m[3] \notin Out
  BY DEF Moves, Out

\* Messages after a write are those of the new status and the new snapshot.
LEMMA WriteTells ==
  ASSUME Inv, NEW t \in Thread, Write(t)
  PROVE  LET a == request[t].ann IN
         /\ \A r \in Resident : message'[a][r] = Letters(ann'[a].status, snapshot'[a], r)
         /\ \A b \in Ann \ {a} : message'[b] = message[b] /\ snapshot'[b] = snapshot[b]
         /\ snapshot' \in [Ann -> SUBSET Resident]
         /\ message' \in [Ann -> [Resident -> Seq({"PUBLISHED", "WITHDRAWN"})]]
  <1> DEFINE q == request[t]
             a == q.ann
  <1>1. q \in Pending /\ a \in Ann /\ ann[a] \in Row /\ Current(q)
    BY WriteMoves
  <1>2. PICK m \in Moves :
          /\ m[1] = ann[a].status /\ m[2] = q.action
          /\ ann' = [ann EXCEPT ![a] = Changed(ann[a], m, q.at)]
    BY WriteMoves
  <1>3. ann'[a].status = m[3]
    BY <1>1, <1>2 DEF Changed, Inv, TypeOK, Row
  <1>4. q.audience \in SUBSET Resident /\ snapshot[a] \in SUBSET Resident
    BY <1>1 DEF Pending, Inv, TypeOK
  <1>5. snapshot' = [snapshot EXCEPT ![a] = IF q.action \in Resolving THEN q.audience ELSE @]
    BY DEF Write
  <1>6. message' = [message EXCEPT ![a] =
            CASE q.action = "PUBLISH" -> Told(a, Addressed(q), "PUBLISHED")
              [] q.action = "WITHDRAW" -> Told(a, Addressed(q), "WITHDRAWN")
              [] OTHER -> @]
    BY DEF Write
  <1>7. /\ snapshot \in [Ann -> SUBSET Resident] /\ DOMAIN message = Ann
        /\ message \in [Ann -> [Resident -> Seq({"PUBLISHED", "WITHDRAWN"})]]
    BY DEF Inv, TypeOK
  <1>8. snapshot'[a] = IF q.action \in Resolving THEN q.audience ELSE snapshot[a]
    BY <1>1, <1>5, <1>7
  <1>9. message'[a] = CASE q.action = "PUBLISH" -> Told(a, Addressed(q), "PUBLISHED")
                        [] q.action = "WITHDRAW" -> Told(a, Addressed(q), "WITHDRAWN")
                        [] OTHER -> message[a]
    BY <1>1, <1>6, <1>7
  <1>10. \A b \in Ann \ {a} : message'[b] = message[b] /\ snapshot'[b] = snapshot[b]
    BY <1>5, <1>6, <1>7
  <1>11. snapshot' \in [Ann -> SUBSET Resident]
    BY <1>4, <1>5, <1>7
  <1>12. \A r \in Resident : message[a][r] = Letters(m[1], snapshot[a], r)
    BY <1>1, <1>2 DEF Inv
  <1>13. \A r \in Resident : message'[a][r] = Letters(m[3], snapshot'[a], r)
    <2>1. CASE q.action = "PUBLISH"
      <3>1. m[1] = "APPROVED" /\ m[3] = "PUBLISHED" /\ q.action \in Resolving
        BY <1>2, <2>1, QuietMoves DEF Resolving
      <3>2. \A r \in Resident : message[a][r] = <<>>
        BY <1>12, <3>1 DEF Letters
      <3>3. Addressed(q) = q.audience
        BY <2>1 DEF Addressed
      <3>4. \A r \in Resident :
               Told(a, q.audience, "PUBLISHED")[r] = Letters("PUBLISHED", q.audience, r)
        BY <1>1, <1>4, <3>2, PublicationTells
      <3>5. message'[a] = Told(a, q.audience, "PUBLISHED") /\ snapshot'[a] = q.audience
        BY <1>8, <1>9, <2>1, <3>1, <3>3
      <3> QED BY <3>1, <3>4, <3>5
    <2>2. CASE q.action = "WITHDRAW"
      <3>1. m[1] = "PUBLISHED" /\ m[3] = "WITHDRAWN" /\ q.action \notin Resolving
        BY <1>2, <2>2, QuietMoves DEF Resolving
      <3>2. \A r \in Resident : message[a][r] = Letters("PUBLISHED", snapshot[a], r)
        BY <1>12, <3>1
      <3>3. Addressed(q) = snapshot[a]
        BY <2>2 DEF Addressed
      <3>4. \A r \in Resident :
               Told(a, snapshot[a], "WITHDRAWN")[r] = Letters("WITHDRAWN", snapshot[a], r)
        BY <1>1, <1>4, <3>2, WithdrawalTells
      <3>5. message'[a] = Told(a, snapshot[a], "WITHDRAWN") /\ snapshot'[a] = snapshot[a]
        BY <1>8, <1>9, <2>2, <3>1, <3>3
      <3> QED BY <3>1, <3>4, <3>5
    <2>3. CASE q.action \notin {"PUBLISH", "WITHDRAW"}
      <3>1. m[1] \notin Out /\ m[3] \notin Out
        BY <1>2, <2>3, QuietMoves
      <3>2. message'[a] = message[a]
        BY <1>9, <2>3
      <3>3. \A r \in Resident : message[a][r] = <<>>
        BY <1>12, <3>1 DEF Letters, Out
      <3>4. \A r \in Resident : Letters(m[3], snapshot'[a], r) = <<>>
        BY <3>1 DEF Letters, Out
      <3> QED BY <3>2, <3>3, <3>4
    <2> QED BY <2>1, <2>2, <2>3
  <1>14. message'[a] \in [Resident -> Seq({"PUBLISHED", "WITHDRAWN"})]
    <2>1. \A r \in Resident : message'[a][r] \in Seq({"PUBLISHED", "WITHDRAWN"})
      BY <1>13, LettersTyped
    <2>2. message'[a] = [r \in Resident |-> message'[a][r]]
      <3>1. message[a] = [r \in Resident |-> message[a][r]]
        BY <1>1, <1>7
      <3>2. \A members, event : Told(a, members, event) =
                 [r \in Resident |-> Told(a, members, event)[r]]
        BY DEF Told
      <3> QED BY <1>9, <3>1, <3>2
    <2> QED BY <2>1, <2>2
  <1>15. message' \in [Ann -> [Resident -> Seq({"PUBLISHED", "WITHDRAWN"})]]
    <2> DEFINE L == [Resident -> Seq({"PUBLISHED", "WITHDRAWN"})]
    <2>1. message \in [Ann -> L] /\ message'[a] \in L
      BY <1>7, <1>14
    <2> HIDE DEF L
    <2>2. message' = [message EXCEPT ![a] = message'[a]]
      BY <1>6, <1>9, <1>1, <1>7
    <2> QED BY <1>1, <2>1, <2>2 DEF L
  <1> QED BY <1>3, <1>10, <1>11, <1>13, <1>15

LEMMA WriteInv ==
  ASSUME Inv, NEW t \in Thread, Write(t)
  PROVE  Inv'
  <1> DEFINE q == request[t]
             a == q.ann
  <1>1. q \in Pending /\ a \in Ann /\ ann[a] \in Row
    BY WriteMoves
  <1>2. PICK m \in Moves :
          /\ m[1] = ann[a].status /\ m[2] = q.action /\ Allowed(m[2], ann[a])
          /\ ann' = [ann EXCEPT ![a] = Changed(ann[a], m, q.at)]
          /\ review' = [review EXCEPT ![a] =
                IF m[2] \in Reviewing THEN review[a] \cup {<<m[2], ann[a].version + 1>>}
                ELSE review[a]]
    BY WriteMoves
  <1> DEFINE new == Changed(ann[a], m, q.at)
  <1>3. /\ q.at \in 0..MaxTime /\ clock \in 1..MaxTime
        /\ review[a] \in SUBSET ((Reviewing \cup {"SCHEDULED_EXECUTION"}) \X Version)
        /\ Room(ann[a]) /\ Reviewed(ann[a], review[a], clock)
        /\ clock' = clock /\ request' = [request EXCEPT ![t] = NoRequest]
    BY <1>1 DEF Pending, Inv, TypeOK, Write
  <1>4. /\ new \in Row /\ Room(new) /\ new.version = ann[a].version + 1
        /\ ann[a].version + 1 \in Version
    BY <1>1, <1>2, <1>3, MoveTyped
  <1>5. Reviewed(new, IF m[2] \in Reviewing THEN review[a] \cup {<<m[2], ann[a].version + 1>>}
                      ELSE review[a], clock)
    BY <1>1, <1>2, <1>3, MoveReviewed
  <1> HIDE DEF new, q
  <1>6. ann \in [Ann -> Row] /\ ann'[a] = new /\ \A b \in Ann \ {a} : ann'[b] = ann[b]
    BY <1>1, <1>2 DEF Inv, TypeOK, new
  <1>7. DOMAIN review = Ann
    BY DEF Inv, TypeOK
  <1>8. TypeOK'
    <2>1. ann' \in [Ann -> Row]
      BY <1>1, <1>2, <1>4, <1>6 DEF new
    <2>2. review' \in [Ann -> SUBSET ((Reviewing \cup {"SCHEDULED_EXECUTION"}) \X Version)]
      <3> DEFINE R == SUBSET ((Reviewing \cup {"SCHEDULED_EXECUTION"}) \X Version)
                 e == IF m[2] \in Reviewing THEN review[a] \cup {<<m[2], ann[a].version + 1>>}
                      ELSE review[a]
      <3>1. review \in [Ann -> R] /\ e \in R
        BY <1>3, <1>4 DEF Inv, TypeOK
      <3> HIDE DEF R, e
      <3>2. review' = [review EXCEPT ![a] = e]
        BY <1>2 DEF e
      <3> QED BY <1>1, <3>1, <3>2 DEF R
    <2>3. request' \in [Thread -> Pending \cup {NoRequest}]
      BY <1>3 DEF Inv, TypeOK
    <2> QED BY <1>3, <2>1, <2>2, <2>3, WriteTells DEF TypeOK
  <1>9. \A b \in Ann : Room(ann[b])'
    BY <1>4, <1>6 DEF Inv, Room
  <1>10. \A u \in Thread : (request[u] # NoRequest => Current(request[u]))'
    <2> SUFFICES ASSUME NEW u \in Thread, request'[u] # NoRequest
                 PROVE  Current(request[u])'
      OBVIOUS
    <2>1. u # t /\ request'[u] = request[u]
      BY <1>3 DEF Inv, TypeOK
    <2> DEFINE rows == [b \in Ann |-> IF b = a THEN new ELSE ann[b]]
    <2>2. /\ {a} \in SUBSET Ann /\ rows \in [Ann -> Row]
          /\ ann' = [b \in Ann |-> IF b \in {a} THEN rows[b] ELSE ann[b]]
          /\ \A b \in {a} : rows[b].version = ann[b].version + 1
      BY <1>1, <1>2, <1>4, <1>6 DEF new
    <2> HIDE DEF rows
    <2> QED BY <2>1, <2>2, OthersStale
  <1>11. \A b \in Ann, r \in Resident : (message[b][r] = Letters(ann[b].status, snapshot[b], r))'
    <2>1. \A r \in Resident : message'[a][r] = Letters(ann'[a].status, snapshot'[a], r)
      BY WriteTells DEF q
    <2>2. \A b \in Ann \ {a} : message'[b] = message[b] /\ snapshot'[b] = snapshot[b]
      BY WriteTells DEF q
    <2>3. \A b \in Ann \ {a}, r \in Resident :
             message'[b][r] = Letters(ann'[b].status, snapshot'[b], r)
      BY <1>6, <2>2 DEF Inv
    <2>4. \A b \in Ann, r \in Resident : message'[b][r] = Letters(ann'[b].status, snapshot'[b], r)
      BY <2>1, <2>3
    <2> QED BY <2>4 DEF Letters
  <1>12. \A b \in Ann : Reviewed(ann[b], review[b], clock)'
    <2>1. review'[a] = IF m[2] \in Reviewing THEN review[a] \cup {<<m[2], ann[a].version + 1>>}
                       ELSE review[a]
      BY <1>1, <1>2, <1>7
    <2>2. \A b \in Ann \ {a} : review'[b] = review[b]
      BY <1>2, <1>7
    <2>3. Reviewed(ann'[a], review'[a], clock')
      BY <1>3, <1>5, <1>6, <2>1
    <2>4. \A b \in Ann \ {a} : Reviewed(ann'[b], review'[b], clock')
      BY <1>3, <1>6, <2>2 DEF Inv
    <2>5. \A b \in Ann : Reviewed(ann'[b], review'[b], clock')
      BY <2>3, <2>4
    <2> QED BY <2>5 DEF Reviewed, Approved, Authorized
  <1> QED BY <1>8, <1>9, <1>10, <1>11, <1>12 DEF Inv

LEMMA DueInv ==
  ASSUME Inv, NEW batch \in SUBSET Due, PublishDue(batch)
  PROVE  Inv'
  <1> DEFINE m == <<"APPROVED", "PUBLISH", "PUBLISHED">>
             out == Publishable(batch)
             new == [b \in Ann |-> Changed(ann[b], m, 0)]
             noted(b) == review[b] \cup {<<"SCHEDULED_EXECUTION", ann[b].version + 1>>}
  <1>1. /\ ann' = [b \in Ann |-> IF b \in out THEN new[b] ELSE ann[b]]
        /\ review' = [b \in Ann |-> IF b \in out THEN noted(b) ELSE review[b]]
        /\ message' = [b \in Ann |-> IF b \in out THEN Told(b, snapshot[b], "PUBLISHED")
                                     ELSE message[b]]
        /\ snapshot' = snapshot /\ request' = request /\ clock' = clock
    BY DEF PublishDue
  <1>2. /\ out \in SUBSET Ann /\ clock \in 1..MaxTime
        /\ \A b \in Ann : /\ ann[b] \in Row /\ Room(ann[b]) /\ Reviewed(ann[b], review[b], clock)
                          /\ review[b] \in SUBSET ((Reviewing \cup {"SCHEDULED_EXECUTION"}) \X Version)
                          /\ snapshot[b] \in SUBSET Resident
    BY DEF Publishable, Due, Inv, TypeOK
  <1>3. \A b \in out : /\ ann[b].status = "APPROVED" /\ ann[b].scheduled \in 1..clock
                       /\ \E w \in Version : <<"SCHEDULE", w>> \in review[b]
    BY DEF Publishable, Due, Scheduled
  <1>4. m \in Moves /\ m[1] = "APPROVED" /\ m[3] = "PUBLISHED" /\ 0 \in 0..MaxTime
        /\ \A b \in Ann : Allowed(m[2], ann[b])
    BY AnnouncementAssumption DEF Moves, Allowed
  <1> HIDE DEF m
  <1>5. ASSUME NEW b \in out
        PROVE  /\ new[b] \in Row /\ Room(new[b]) /\ new[b].version = ann[b].version + 1
               /\ new[b].status = "PUBLISHED" /\ ann[b].version + 1 \in Version
    BY <1>2, <1>3, <1>4, MoveTyped
  <1>6. ASSUME NEW b \in out
        PROVE  Reviewed(new[b], noted(b), clock)
    <2>1. ann[b].scheduled <= clock
      BY <1>2, <1>3
    <2>2. PICK w \in Version : <<"SCHEDULE", w>> \in review[b]
      BY <1>3
    <2>3. Reviewed(Changed(ann[b], <<"APPROVED", "PUBLISH", "PUBLISHED">>, 0), noted(b), clock)
      BY <1>2, <1>3, <2>1, <2>2, DueReviewed
    <2> QED BY <1>2, <2>3 DEF m
  <1>7. ASSUME NEW b \in out, NEW r \in Resident
        PROVE  Told(b, snapshot[b], "PUBLISHED")[r] = Letters("PUBLISHED", snapshot[b], r)
    <2>1. \A x \in Resident : message[b][x] = <<>>
      BY <1>2, <1>3 DEF Inv, Letters
    <2> QED BY <1>2, <2>1, PublicationTells
  <1> HIDE DEF new, out
  <1>8. TypeOK'
    <2>1. ann' \in [Ann -> Row]
      BY <1>1, <1>2, <1>5
    <2>2. review' \in [Ann -> SUBSET ((Reviewing \cup {"SCHEDULED_EXECUTION"}) \X Version)]
      BY <1>1, <1>2, <1>5
    <2>3. message' \in [Ann -> [Resident -> Seq({"PUBLISHED", "WITHDRAWN"})]]
      <3> DEFINE L == Seq({"PUBLISHED", "WITHDRAWN"})
      <3>1. \A b \in out, r \in Resident : Told(b, snapshot[b], "PUBLISHED")[r] \in L
        BY <1>7, LettersTyped
      <3>2. \A b \in out : Told(b, snapshot[b], "PUBLISHED") \in [Resident -> L]
        <4> HIDE DEF L
        <4>1. \A b, members, event : Told(b, members, event) =
                   [r \in Resident |-> Told(b, members, event)[r]]
          BY DEF Told
        <4> QED BY <3>1, <4>1
      <3>3. message \in [Ann -> [Resident -> L]]
        BY DEF Inv, TypeOK
      <3> HIDE DEF L
      <3>4. message' \in [Ann -> [Resident -> L]]
        BY <1>1, <3>2, <3>3
      <3> QED BY <3>4 DEF L
    <2>4. /\ request' \in [Thread -> Pending \cup {NoRequest}]
          /\ snapshot' \in [Ann -> SUBSET Resident] /\ clock' \in 1..MaxTime
      BY <1>1 DEF Inv, TypeOK
    <2> QED BY <2>1, <2>2, <2>3, <2>4 DEF TypeOK
  <1>9. \A b \in Ann : Room(ann[b])'
    <2>1. \A b \in Ann : Room(ann'[b])
      BY <1>1, <1>2, <1>5
    <2> QED BY <2>1 DEF Room
  <1>10. \A t \in Thread : (request[t] # NoRequest => Current(request[t]))'
    <2> SUFFICES ASSUME NEW t \in Thread, request'[t] # NoRequest
                 PROVE  Current(request[t])'
      OBVIOUS
    <2> DEFINE rows == [b \in Ann |-> IF b \in out THEN new[b] ELSE ann[b]]
    <2>1. /\ rows \in [Ann -> Row]
          /\ ann' = [b \in Ann |-> IF b \in out THEN rows[b] ELSE ann[b]]
          /\ \A b \in out : rows[b].version = ann[b].version + 1
      BY <1>1, <1>2, <1>5
    <2> HIDE DEF rows
    <2> QED BY <1>1, <1>2, <2>1, OthersStale
  <1>11. \A b \in Ann, r \in Resident : (message[b][r] = Letters(ann[b].status, snapshot[b], r))'
    <2>1. ASSUME NEW b \in Ann, NEW r \in Resident
          PROVE  message'[b][r] = Letters(ann'[b].status, snapshot'[b], r)
      <3>1. CASE b \in out
        BY <1>1, <1>5, <1>7, <3>1
      <3>2. CASE b \notin out
        BY <1>1, <3>2 DEF Inv
      <3> QED BY <3>1, <3>2
    <2> QED BY <2>1 DEF Letters
  <1>12. \A b \in Ann : Reviewed(ann[b], review[b], clock)'
    <2>1. ASSUME NEW b \in Ann
          PROVE  Reviewed(ann'[b], review'[b], clock')
      <3>1. CASE b \in out
        BY <1>1, <1>6, <3>1
      <3>2. CASE b \notin out
        BY <1>1, <1>2, <3>2
      <3> QED BY <3>1, <3>2
    <2> QED BY <2>1 DEF Reviewed, Approved, Authorized
  <1> QED BY <1>8, <1>9, <1>10, <1>11, <1>12 DEF Inv

LEMMA CreateInv ==
  ASSUME Inv, NEW a \in Ann, NEW at \in 0..MaxTime, Create(a, at)
  PROVE  Inv'
  <1> DEFINE new == [status |-> "DRAFT", version |-> 1, edited |-> 1, scheduled |-> at]
             rows == [b \in Ann |-> new]
  <1>1. /\ ann[a] = NoRow /\ ann \in [Ann -> Row]
        /\ ann' = [ann EXCEPT ![a] = new]
        /\ UNCHANGED <<review, snapshot, message, request, clock>>
    BY DEF Create, Inv, TypeOK
  <1>2. new \in Row /\ Room(new)
    BY AnnouncementAssumption DEF Row, Status, Version, Room
  <1>3. Reviewed(new, review[a], clock)
    <2>1. /\ \A e \in review[a] : e[2] <= 0 /\ e[2] \in Nat
          /\ \A w \in Version : <<"SCHEDULE", w>> \notin review[a]
      <3>1. /\ Reviewed(ann[a], review[a], clock)
            /\ review[a] \in SUBSET ((Reviewing \cup {"SCHEDULED_EXECUTION"}) \X Version)
        BY DEF Inv, TypeOK
      <3>2. ann[a].version = 0 /\ ann[a].status \notin {"APPROVED"} \cup Out
        BY <1>1 DEF NoRow, Out
      <3>3. \A e \in review[a] : e[2] \in Nat
        BY <3>1 DEF Version
      <3> QED BY <3>1, <3>2, <3>3 DEF Reviewed
    <2> QED BY <2>1 DEF Reviewed, Out
  <1>4. \A r \in Resident : message[a][r] = <<>>
    BY <1>1 DEF Inv, Letters, NoRow
  <1>5. /\ rows \in [Ann -> Row] /\ {a} \in SUBSET Ann
        /\ ann' = [b \in Ann |-> IF b \in {a} THEN rows[b] ELSE ann[b]]
        /\ \A b \in {a} : rows[b].version = ann[b].version + 1
    <2>1. ann' = [b \in Ann |-> IF b \in {a} THEN rows[b] ELSE ann[b]]
      <3> HIDE DEF new
      <3> QED BY <1>1
    <2>2. rows[a].version = 1 /\ ann[a].version = 0
      BY <1>1 DEF NoRow
    <2> QED BY <1>2, <2>1, <2>2
  <1>6. ann'[a] = new /\ \A b \in Ann \ {a} : ann'[b] = ann[b]
    BY <1>1
  <1>7. new.status = "DRAFT"
    OBVIOUS
  <1> HIDE DEF new, rows
  <1>8. TypeOK'
    BY <1>1, <1>2 DEF Inv, TypeOK
  <1>9. \A b \in Ann : Room(ann[b])'
    BY <1>2, <1>6 DEF Inv, Room
  <1>10. \A t \in Thread : (request[t] # NoRequest => Current(request[t]))'
    BY <1>1, <1>5, OthersStale
  <1>11. \A b \in Ann, r \in Resident : (message[b][r] = Letters(ann[b].status, snapshot[b], r))'
    <2>1. \A b \in Ann, r \in Resident : message[b][r] = Letters(ann'[b].status, snapshot[b], r)
      BY <1>4, <1>6, <1>7 DEF Inv, Letters
    <2> QED BY <1>1, <2>1 DEF Letters
  <1>12. \A b \in Ann : Reviewed(ann[b], review[b], clock)'
    <2>1. \A b \in Ann : Reviewed(ann'[b], review[b], clock)
      BY <1>3, <1>6 DEF Inv
    <2> QED BY <1>1, <2>1 DEF Reviewed, Approved, Authorized
  <1> QED BY <1>8, <1>9, <1>10, <1>11, <1>12 DEF Inv

LEMMA LoadInv ==
  ASSUME Inv, NEW t \in Thread, NEW a \in Ann, Load(t, a)
  PROVE  Inv'
  <1>1. PICK q \in Pending : request' = [request EXCEPT ![t] = q] /\ Current(q)
    BY LoadCurrent
  <1>2. UNCHANGED <<ann, review, snapshot, message, clock>>
    BY DEF Load
  <1>3. TypeOK'
    BY <1>1, <1>2 DEF Inv, TypeOK
  <1>4. \A u \in Thread : (request[u] # NoRequest => Current(request[u]))'
    BY <1>1, <1>2 DEF Inv, TypeOK, Current
  <1> QED BY <1>2, <1>3, <1>4 DEF Inv, Room, Letters, Reviewed, Approved, Authorized

LEMMA AbortInv ==
  ASSUME Inv, NEW t \in Thread, Abort(t)
  PROVE  Inv'
  <1>1. /\ request' = [request EXCEPT ![t] = NoRequest]
        /\ UNCHANGED <<ann, review, snapshot, message, clock>>
    BY DEF Abort
  <1>2. TypeOK'
    BY <1>1 DEF Inv, TypeOK
  <1>3. \A u \in Thread : (request[u] # NoRequest => Current(request[u]))'
    BY <1>1 DEF Inv, TypeOK, Current
  <1> QED BY <1>1, <1>2, <1>3 DEF Inv, Room, Letters, Reviewed, Approved, Authorized

\* What was due remains due.
LEMMA TickInv ==
  ASSUME Inv, Tick
  PROVE  Inv'
  <1>1. /\ clock' = clock + 1 /\ clock < MaxTime
        /\ UNCHANGED <<ann, review, snapshot, message, request>>
    BY DEF Tick
  <1>2. clock \in 1..MaxTime /\ MaxTime \in Nat
    BY AnnouncementAssumption DEF Inv, TypeOK
  <1>3. TypeOK'
    BY <1>1, <1>2 DEF Inv, TypeOK
  <1>4. \A t \in Thread : (request[t] # NoRequest => Current(request[t]))'
    BY <1>1 DEF Inv, Current
  <1>5. \A b \in Ann : Reviewed(ann[b], review[b], clock)'
    <2>1. ASSUME NEW b \in Ann PROVE Reviewed(ann[b], review[b], clock + 1)
      <3>1. Reviewed(ann[b], review[b], clock) /\ ann[b].scheduled \in Nat
        BY DEF Inv, TypeOK, Row
      <3>2. \A n \in Nat : n <= clock => n <= clock + 1
        BY <1>2
      <3>3. Authorized(ann[b], review[b], clock) => Authorized(ann[b], review[b], clock + 1)
        BY <3>1, <3>2 DEF Authorized
      <3> QED BY <3>1, <3>3 DEF Reviewed
    <2> QED BY <1>1, <2>1 DEF Reviewed, Approved, Authorized
  <1> QED BY <1>1, <1>3, <1>4, <1>5 DEF Inv, Room, Letters

LEMMA StutterInv ==
  ASSUME Inv, UNCHANGED vars
  PROVE  Inv'
  <1>1. UNCHANGED <<ann, review, snapshot, message, request, clock>>
    BY DEF vars
  <1>2. TypeOK'
    BY <1>1 DEF Inv, TypeOK
  <1>3. \A t \in Thread : (request[t] # NoRequest => Current(request[t]))'
    BY <1>1 DEF Inv, Current
  <1> QED BY <1>1, <1>2, <1>3 DEF Inv, Room, Letters, Reviewed, Approved, Authorized

-----------------------------------------------------------------------------
\* Announcements, their requests and the scheduler keep the invariant.
THEOREM AnnouncementInvariant == Spec => []Inv
  <1>1. Inv /\ [Next]_vars => Inv'
    <2> SUFFICES ASSUME Inv, [Next]_vars PROVE Inv'
      OBVIOUS
    <2>1. CASE Tick
      BY <2>1, TickInv
    <2>2. CASE \E a \in Ann, at \in 0..MaxTime : Create(a, at)
      BY <2>2, CreateInv
    <2>3. CASE \E t \in Thread : (\E a \in Ann : Load(t, a)) \/ Write(t) \/ Abort(t)
      BY <2>3, LoadInv, WriteInv, AbortInv
    <2>4. CASE \E batch \in SUBSET Due : PublishDue(batch)
      BY <2>4, DueInv
    <2>5. CASE UNCHANGED vars
      BY <2>5, StutterInv
    <2> QED BY <2>1, <2>2, <2>3, <2>4, <2>5 DEF Next
  <1> QED BY InitInv, <1>1, PTL DEF Spec

\* Every variable has its type, and versions stay within their bound.
THEOREM AnnouncementTypeCorrect == Spec => []TypeOK
  <1>1. Inv => TypeOK
    BY DEF Inv
  <1> QED BY <1>1, AnnouncementInvariant, PTL

\* Whatever requests and scheduler do next to each other, those who can read
\* an announcement were told of it once, and those who were told of it are told
\* of its withdrawal.
THEOREM ReadersTold == Spec => []ReadersWereTold
  <1>1. Inv => ReadersWereTold
    <2> SUFFICES ASSUME Inv, NEW a \in Ann, NEW r \in Resident
                 PROVE  message[a][r] =
                           IF Visible(r, a) THEN <<"PUBLISHED">>
                           ELSE IF ann[a].status = "WITHDRAWN" /\ r \in snapshot[a]
                           THEN <<"PUBLISHED", "WITHDRAWN">>
                           ELSE <<>>
      BY DEF ReadersWereTold
    <2>1. message[a][r] = Letters(ann[a].status, snapshot[a], r)
      BY DEF Inv
    <2> HIDE DEF Inv
    <2> QED BY <2>1 DEF Letters, Visible
  <1> QED BY <1>1, AnnouncementInvariant, PTL

\* What goes out was approved after its last edit, and then a manager published
\* it, or set the time that the scheduler has waited for.
THEOREM PublicationAuthorized == Spec => []PublishedWasAuthorized
  <1>1. Inv => PublishedWasAuthorized
    <2> SUFFICES ASSUME Inv, NEW a \in Ann, ann[a].status \in Out
                 PROVE  Authorized(ann[a], review[a], clock)
      BY DEF PublishedWasAuthorized, Authorized, Out
    <2> QED BY DEF Inv, Reviewed
  <1> QED BY <1>1, AnnouncementInvariant, PTL
=============================================================================
