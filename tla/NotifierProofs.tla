--------------------------- MODULE NotifierProofs ---------------------------
(* Theorems about Notifier, for any jobs, chats, settings and limits.      *)
EXTENDS Notifier, TLAPS

(***************************************************************************)
(* The inductive invariant.                                                *)
(***************************************************************************)
isEnd(x, j) == x.kind \in {"completed", "failed"} /\ x.of = j
isStart(x, j) == x.kind = "started" /\ x.of = j
endsIn(s, j) == {i \in DOMAIN s : isEnd(s[i], j)}
startsIn(s, j) == {i \in DOMAIN s : isStart(s[i], j)}

\* What an event or a task is about fits its kind.
fits(x) == x.kind = "alert" <=> x.of \in Alerts
KindsInv ==
  /\ \A i \in DOMAIN inbox : fits(inbox[i])
  /\ \A i \in DOMAIN outbox : fits(outbox[i])
  /\ \A t \in backoff : fits(t)

\* The end of a job is in one place: not published yet, an event, a task, a
\* task that waits, or gone.
OneEnd(j) ==
  /\ phase[j] # "over" =>
       endsIn(inbox, j) = {} /\ endsIn(outbox, j) = {} /\ \A t \in backoff : ~isEnd(t, j)
  /\ \A i, k \in endsIn(inbox, j) : i = k
  /\ \A i, k \in endsIn(outbox, j) : i = k
  /\ \A t, u \in backoff : isEnd(t, j) /\ isEnd(u, j) => t = u
  /\ endsIn(inbox, j) # {} => endsIn(outbox, j) = {} /\ \A t \in backoff : ~isEnd(t, j)
  /\ endsIn(outbox, j) # {} => \A t \in backoff : ~isEnd(t, j)

Pending(j) ==
  \/ phase[j] # "over"
  \/ endsIn(inbox, j) # {} \/ endsIn(outbox, j) # {} \/ \E t \in backoff : isEnd(t, j)

\* While the end is pending, every time a chat was told of it an attempt
\* failed.
CountInv(j) ==
  \A c \in Chats : ends[j][c] <= failed[j] + 1 /\ (Pending(j) => ends[j][c] <= failed[j])

\* Unless an attempt failed, the start is ahead of the end.
StartInv(j) == failed[j] = 0 =>
  /\ \A t \in backoff : t.of # j
  /\ j \notin late
  /\ \A i \in startsIn(inbox, j) :
       /\ \A k \in endsIn(inbox, j) : i < k
       /\ endsIn(outbox, j) = {}
       /\ \A c \in Chats : ends[j][c] = 0
  /\ \A i \in startsIn(outbox, j) :
       /\ \A k \in endsIn(outbox, j) : i < k
       /\ \A c \in Chats : ends[j][c] = 0

JobInv(j) == OneEnd(j) /\ CountInv(j) /\ StartInv(j)

IInv == TypeOK /\ KindsInv /\ OnePoller /\ \A j \in Jobs : JobInv(j)

(***************************************************************************)
(* Sequences.                                                              *)
(***************************************************************************)
\* Ends and starts of a sequence with one more element...
LEMMA Longer ==
  ASSUME NEW S, NEW s \in Seq(S), NEW e \in S, NEW j
  PROVE  LET t == Append(s, e) IN
           /\ endsIn(t, j) = endsIn(s, j) \cup (IF isEnd(e, j) THEN {Len(s) + 1} ELSE {})
           /\ startsIn(t, j) = startsIn(s, j) \cup (IF isStart(e, j) THEN {Len(s) + 1} ELSE {})
           /\ \A i \in DOMAIN s : i \in Nat /\ i < Len(s) + 1
           /\ \A i \in DOMAIN t : t[i] = e \/ (i \in DOMAIN s /\ t[i] = s[i])
<1> DEFINE t == Append(s, e)
<1>1. /\ DOMAIN t = DOMAIN s \cup {Len(s) + 1} /\ t[Len(s) + 1] = e
      /\ \A i \in DOMAIN s : t[i] = s[i] /\ i \in Nat /\ i < Len(s) + 1
  OBVIOUS
<1> HIDE DEF t
<1>2. endsIn(t, j) = endsIn(s, j) \cup (IF isEnd(e, j) THEN {Len(s) + 1} ELSE {})
  BY <1>1 DEF endsIn
<1>3. startsIn(t, j) = startsIn(s, j) \cup (IF isStart(e, j) THEN {Len(s) + 1} ELSE {})
  BY <1>1 DEF startsIn
<1>4. \A i \in DOMAIN t : t[i] = e \/ (i \in DOMAIN s /\ t[i] = s[i])
  BY <1>1
<1> QED
  BY <1>1, <1>2, <1>3, <1>4 DEF t

\* ...and with its first one taken.
LEMMA Shorter ==
  ASSUME NEW S, NEW s \in Seq(S), s # <<>>, NEW j
  PROVE  LET t == Tail(s) IN
           /\ t \in Seq(S) /\ Head(s) \in S /\ Head(s) = s[1] /\ 1 \in DOMAIN s
           /\ Len(t) = Len(s) - 1 /\ Len(s) \in Nat /\ Len(t) \in Nat
           /\ endsIn(t, j) \in SUBSET Nat /\ startsIn(t, j) \in SUBSET Nat
           /\ \A i \in endsIn(t, j) : i + 1 \in endsIn(s, j) /\ i + 1 > 1
           /\ \A i \in startsIn(t, j) : i + 1 \in startsIn(s, j) /\ i + 1 > 1
           /\ \A i \in DOMAIN t : i + 1 \in DOMAIN s /\ t[i] = s[i + 1]
           /\ \A i \in endsIn(s, j) : i = 1 \/ i - 1 \in endsIn(t, j)
<1> DEFINE t == Tail(s)
<1>1. /\ t \in Seq(S) /\ Head(s) \in S /\ Head(s) = s[1] /\ 1 \in DOMAIN s
      /\ Len(t) = Len(s) - 1 /\ Len(s) \in Nat /\ Len(t) \in Nat
      /\ \A i \in DOMAIN t : i \in Nat /\ i + 1 > 1 /\ i + 1 \in DOMAIN s /\ t[i] = s[i + 1]
      /\ \A i \in DOMAIN s : i = 1 \/ (i - 1 \in DOMAIN t /\ t[i - 1] = s[i])
  OBVIOUS
<1> HIDE DEF t
<1>2. /\ endsIn(t, j) \in SUBSET Nat /\ startsIn(t, j) \in SUBSET Nat
      /\ \A i \in endsIn(t, j) : i + 1 \in endsIn(s, j) /\ i + 1 > 1
      /\ \A i \in startsIn(t, j) : i + 1 \in startsIn(s, j) /\ i + 1 > 1
      /\ \A i \in endsIn(s, j) : i = 1 \/ i - 1 \in endsIn(t, j)
  BY <1>1 DEF endsIn, startsIn
<1> QED
  BY <1>1, <1>2 DEF t

(***************************************************************************)
(* What the steps do to the ends and starts of jobs.                       *)
(***************************************************************************)
core == <<phase, inbox, outbox, backoff, ends, failed, late>>

\* The engine publishes e, or its event is dropped.
Publishes(e) ==
  /\ inbox' \in {inbox, Append(inbox, e)}
  /\ fits(e)
  /\ \A j \in Jobs :
       /\ phase'[j] # "over" => phase[j] # "over"
       /\ isEnd(e, j) => phase[j] # "over" /\ phase'[j] = "over"
       /\ isStart(e, j) => phase[j] # "over"
  /\ UNCHANGED <<outbox, backoff, ends, failed, late>>

\* The dispatcher turns an event into a task, or into nothing.
Handles(t) ==
  /\ inbox # <<>> /\ inbox' = Tail(inbox)
  /\ t.kind = Head(inbox).kind /\ t.of = Head(inbox).of
  /\ outbox' \in {outbox, Append(outbox, t)}
  /\ UNCHANGED <<phase, backoff, ends, failed, late>>

\* The worker runs a task, which succeeds or fails.
Sends(u) ==
  LET t == Head(outbox) IN
  /\ outbox # <<>> /\ outbox' = Tail(outbox)
  /\ u.kind = t.kind /\ u.of = t.of
  /\ \/ UNCHANGED <<backoff, failed>>
     \/ /\ failed' = [failed EXCEPT ![t.of] = @ + 1]
        /\ backoff' \in {backoff, backoff \cup {u}}
  /\ \A j \in Jobs :
       /\ ~isEnd(t, j) => ends'[j] = ends[j]
       /\ \A c \in Chats : ends'[j][c] \in Nat /\ ends'[j][c] <= ends[j][c] + 1
       /\ j \in late' \ late => isStart(t, j) /\ \E c \in Chats : ends[j][c] > 0
  /\ UNCHANGED <<phase, inbox>>

\* A task that waited is put back, or dropped.
Wakes(t) ==
  /\ t \in backoff /\ backoff' = backoff \ {t}
  /\ outbox' \in {outbox, Append(outbox, t)}
  /\ UNCHANGED <<phase, inbox, ends, failed, late>>

\* A task put into the outbox, or dropped.
LEMMA Put ==
  ASSUME outbox \in Seq(Tasks), NEW t \in Tasks, outbox' \in {outbox, Append(outbox, t)}, NEW j
  PROVE  /\ \/ outbox' = outbox
            \/ /\ endsIn(outbox', j) = endsIn(outbox, j) \cup (IF isEnd(t, j) THEN {Len(outbox) + 1} ELSE {})
               /\ startsIn(outbox', j) =
                    startsIn(outbox, j) \cup (IF isStart(t, j) THEN {Len(outbox) + 1} ELSE {})
         /\ \A i \in DOMAIN outbox : i \in Nat /\ i < Len(outbox) + 1
         /\ \A i \in DOMAIN outbox' : outbox'[i] = t \/ (i \in DOMAIN outbox /\ outbox'[i] = outbox[i])
<1>1. /\ endsIn(Append(outbox, t), j) = endsIn(outbox, j) \cup (IF isEnd(t, j) THEN {Len(outbox) + 1} ELSE {})
      /\ startsIn(Append(outbox, t), j) =
           startsIn(outbox, j) \cup (IF isStart(t, j) THEN {Len(outbox) + 1} ELSE {})
      /\ \A i \in DOMAIN outbox : i \in Nat /\ i < Len(outbox) + 1
      /\ \A i \in DOMAIN Append(outbox, t) :
           Append(outbox, t)[i] = t \/ (i \in DOMAIN outbox /\ Append(outbox, t)[i] = outbox[i])
  BY Longer
<1>2. CASE outbox' = outbox
  BY <1>1, <1>2
<1>3. CASE outbox' = Append(outbox, t)
  BY <1>1, <1>3
<1> QED
  BY <1>2, <1>3

\* Each of these keeps what holds of a job.
LEMMA PublishesKeeps ==
  ASSUME IInv, NEW e \in Events, Publishes(e), NEW j \in Jobs
  PROVE  JobInv(j)'
<1>1. CASE inbox' = inbox
  BY <1>1 DEF Publishes, IInv, JobInv, OneEnd, CountInv, StartInv, Pending
<1>2. CASE inbox' = Append(inbox, e)
  <2>1. inbox \in Seq(Events)
    BY DEF IInv, TypeOK
  <2>2. /\ endsIn(inbox', j) = endsIn(inbox, j) \cup (IF isEnd(e, j) THEN {Len(inbox) + 1} ELSE {})
        /\ startsIn(inbox', j) = startsIn(inbox, j) \cup (IF isStart(e, j) THEN {Len(inbox) + 1} ELSE {})
        /\ \A i \in DOMAIN inbox : i \in Nat /\ i < Len(inbox) + 1
    BY <1>2, <2>1, Longer
  <2>3. endsIn(inbox, j) \subseteq DOMAIN inbox /\ startsIn(inbox, j) \subseteq DOMAIN inbox
    BY DEF endsIn, startsIn
  <2>4. /\ isEnd(e, j) => phase[j] # "over" /\ phase'[j] = "over"
        /\ isStart(e, j) => phase[j] # "over"
        /\ phase'[j] # "over" => phase[j] # "over"
        /\ UNCHANGED <<outbox, backoff, ends, failed, late>>
        /\ ~(isEnd(e, j) /\ isStart(e, j))
    BY DEF Publishes, isEnd, isStart
  <2>5. JobInv(j)
    BY DEF IInv
  <2>6. OneEnd(j)'
    BY <2>2, <2>4, <2>5 DEF JobInv, OneEnd
  <2>7. Pending(j)' => Pending(j)
    BY <2>2, <2>4 DEF Pending
  <2>8. CountInv(j)'
    BY <2>4, <2>5, <2>7 DEF JobInv, CountInv
  <2>9. isStart(e, j) /\ failed[j] = 0 =>
          /\ endsIn(inbox, j) = {} /\ endsIn(outbox, j) = {}
          /\ \A c \in Chats : ends[j][c] = 0
    BY <2>4, <2>5 DEF JobInv, OneEnd, CountInv, Pending, IInv, TypeOK
  <2>10. StartInv(j)'
    BY <2>2, <2>3, <2>4, <2>5, <2>9 DEF JobInv, StartInv
  <2> QED
    BY <2>6, <2>8, <2>10 DEF JobInv
<1> QED
  BY <1>1, <1>2 DEF Publishes

\* Handling an event: its end or start moves from the inbox to the outbox.
LEMMA HandlesKeeps ==
  ASSUME IInv, NEW t \in Tasks, Handles(t), NEW j \in Jobs
  PROVE  JobInv(j)'
<1> DEFINE e == Head(inbox)
<1>1. inbox \in Seq(Events) /\ outbox \in Seq(Tasks) /\ inbox # <<>> /\ inbox' = Tail(inbox)
  BY DEF IInv, TypeOK, Handles
<1>2. /\ e = inbox[1] /\ 1 \in DOMAIN inbox
      /\ endsIn(inbox', j) \in SUBSET Nat /\ startsIn(inbox', j) \in SUBSET Nat
      /\ \A i \in endsIn(inbox', j) : i + 1 \in endsIn(inbox, j) /\ i + 1 > 1
      /\ \A i \in startsIn(inbox', j) : i + 1 \in startsIn(inbox, j) /\ i + 1 > 1
  BY <1>1, Shorter
<1>3. /\ isEnd(e, j) <=> isEnd(t, j)
      /\ isStart(e, j) <=> isStart(t, j)
      /\ isEnd(e, j) => 1 \in endsIn(inbox, j)
      /\ isStart(e, j) => 1 \in startsIn(inbox, j)
      /\ ~(isEnd(t, j) /\ isStart(t, j))
  BY <1>2 DEF Handles, isEnd, isStart, endsIn, startsIn
<1>4. /\ \/ outbox' = outbox
         \/ /\ endsIn(outbox', j) = endsIn(outbox, j) \cup (IF isEnd(t, j) THEN {Len(outbox) + 1} ELSE {})
            /\ startsIn(outbox', j) = startsIn(outbox, j) \cup (IF isStart(t, j) THEN {Len(outbox) + 1} ELSE {})
      /\ \A i \in DOMAIN outbox : i \in Nat /\ i < Len(outbox) + 1
  BY <1>1, Put DEF Handles
<1>5. endsIn(outbox, j) \subseteq DOMAIN outbox /\ startsIn(outbox, j) \subseteq DOMAIN outbox
  BY DEF endsIn, startsIn
<1>6. UNCHANGED <<phase, backoff, ends, failed, late>>
  BY DEF Handles
<1>7. JobInv(j)
  BY DEF IInv
<1> HIDE DEF e
<1>8. endsIn(inbox', j) # {} => endsIn(inbox, j) # {} /\ ~isEnd(t, j)
  <2>1. ASSUME NEW i \in endsIn(inbox', j) PROVE ~isEnd(t, j)
    BY <1>2, <1>3, <1>7 DEF JobInv, OneEnd
  <2> QED
    BY <1>2, <2>1
<1>9. OneEnd(j)'
  <2>1. \A i, k \in endsIn(inbox', j) : i = k
    <3> TAKE i, k \in endsIn(inbox', j)
    <3>1. i + 1 = k + 1 /\ i \in Nat /\ k \in Nat
      BY <1>2, <1>7 DEF JobInv, OneEnd
    <3> QED
      BY <3>1
  <2>2. isEnd(t, j) => endsIn(inbox, j) # {}
    BY <1>3
  <2> QED
    BY <1>4, <1>6, <1>7, <1>8, <2>1, <2>2 DEF JobInv, OneEnd
<1>10. Pending(j)' => Pending(j)
  BY <1>3, <1>4, <1>6, <1>8 DEF Pending
<1>11. CountInv(j)'
  BY <1>6, <1>7, <1>10 DEF JobInv, CountInv
<1>12. StartInv(j)'
  <2> SUFFICES ASSUME failed[j] = 0
               PROVE  /\ \A i \in startsIn(inbox', j) :
                           /\ \A k \in endsIn(inbox', j) : i < k
                           /\ endsIn(outbox', j) = {}
                           /\ \A c \in Chats : ends[j][c] = 0
                      /\ \A i \in startsIn(outbox', j) :
                           /\ \A k \in endsIn(outbox', j) : i < k
                           /\ \A c \in Chats : ends[j][c] = 0
    BY <1>6, <1>7 DEF JobInv, StartInv
  <2>1. ASSUME NEW i \in startsIn(inbox', j)
        PROVE  /\ \A k \in endsIn(inbox', j) : i < k
               /\ endsIn(outbox', j) = {}
               /\ \A c \in Chats : ends[j][c] = 0
    <3>1. /\ i + 1 \in startsIn(inbox, j) /\ i \in Nat /\ i + 1 > 1
          /\ \A k \in endsIn(inbox, j) : i + 1 < k
          /\ endsIn(outbox, j) = {}
          /\ \A c \in Chats : ends[j][c] = 0
      BY <1>2, <1>7 DEF JobInv, StartInv
    <3>2. ~isEnd(t, j)
      BY <1>3, <3>1
    <3>3. \A k \in endsIn(inbox', j) : i < k
      BY <1>2, <3>1
    <3> QED
      BY <1>4, <3>1, <3>2, <3>3
  <2>2. ASSUME NEW i \in startsIn(outbox', j)
        PROVE  /\ \A k \in endsIn(outbox', j) : i < k
               /\ \A c \in Chats : ends[j][c] = 0
    <3>1. CASE i \in startsIn(outbox, j)
      BY <1>4, <1>5, <1>7, <3>1 DEF JobInv, StartInv
    <3>2. CASE i \notin startsIn(outbox, j)
      <4>1. isStart(t, j) /\ i = Len(outbox) + 1
        BY <1>4, <2>2, <3>2
      <4>2. endsIn(outbox, j) = {} /\ \A c \in Chats : ends[j][c] = 0
        BY <1>3, <1>7, <4>1 DEF JobInv, StartInv
      <4> QED
        BY <1>3, <1>4, <4>1, <4>2
    <3> QED
      BY <3>1, <3>2
  <2> QED
    BY <2>1, <2>2
<1> QED
  BY <1>9, <1>11, <1>12 DEF JobInv

\* Running a task: a failed one counts before it waits.
LEMMA SendsKeeps ==
  ASSUME IInv, NEW u \in Tasks, Sends(u), NEW j \in Jobs
  PROVE  JobInv(j)'
<1> DEFINE t == Head(outbox)
<1>1. outbox \in Seq(Tasks) /\ outbox # <<>> /\ outbox' = Tail(outbox)
  BY DEF IInv, TypeOK, Sends
<1>2. /\ t = outbox[1] /\ 1 \in DOMAIN outbox /\ t \in Tasks
      /\ endsIn(outbox', j) \in SUBSET Nat /\ startsIn(outbox', j) \in SUBSET Nat
      /\ \A i \in endsIn(outbox', j) : i + 1 \in endsIn(outbox, j) /\ i + 1 > 1
      /\ \A i \in startsIn(outbox', j) : i + 1 \in startsIn(outbox, j) /\ i + 1 > 1
  BY <1>1, Shorter
<1>3. /\ isEnd(t, j) <=> isEnd(u, j)
      /\ isEnd(t, j) => 1 \in endsIn(outbox, j)
      /\ isStart(t, j) => 1 \in startsIn(outbox, j)
      /\ isEnd(t, j) => t.of = j
  BY <1>2 DEF Sends, isEnd, isStart, endsIn, startsIn
<1>4. /\ \/ UNCHANGED <<backoff, failed>>
         \/ /\ failed' = [failed EXCEPT ![t.of] = @ + 1]
            /\ backoff' \in {backoff, backoff \cup {u}}
      /\ ~isEnd(t, j) => ends'[j] = ends[j]
      /\ \A c \in Chats : ends'[j][c] \in Nat /\ ends'[j][c] <= ends[j][c] + 1
      /\ j \in late' \ late => isStart(t, j) /\ \E c \in Chats : ends[j][c] > 0
      /\ UNCHANGED <<phase, inbox>> /\ u.of = t.of
  BY DEF Sends
<1>5. JobInv(j)
  BY DEF IInv
<1>6. /\ failed[j] \in Nat /\ failed'[j] \in Nat /\ failed[j] <= failed'[j]
      /\ \A c \in Chats : ends[j][c] \in Nat
      /\ failed'[j] = failed[j] \/ (t.of = j /\ failed'[j] = failed[j] + 1)
  <2>1. failed \in [Items -> Nat] /\ j \in Items /\ \A c \in Chats : ends[j][c] \in Nat
    BY BoundsAssumption DEF IInv, TypeOK, Items
  <2> HIDE DEF t
  <2>2. failed'[j] = failed[j] \/ (t.of = j /\ failed'[j] = failed[j] + 1)
    BY <1>4, <2>1
  <2> QED
    BY <2>1, <2>2
<1> HIDE DEF t
<1>7. isEnd(t, j) => /\ endsIn(outbox', j) = {} /\ endsIn(inbox, j) = {}
                     /\ phase[j] = "over" /\ \A x \in backoff : ~isEnd(x, j)
  <2>1. ASSUME isEnd(t, j), NEW i \in endsIn(outbox', j) PROVE FALSE
    BY <1>2, <1>3, <1>5, <2>1 DEF JobInv, OneEnd
  <2> QED
    BY <1>3, <1>5, <2>1 DEF JobInv, OneEnd, IInv, TypeOK
<1>8. OneEnd(j)'
  <2>1. \A i, k \in endsIn(outbox', j) : i = k
    <3> TAKE i, k \in endsIn(outbox', j)
    <3>1. i + 1 = k + 1 /\ i \in Nat /\ k \in Nat
      BY <1>2, <1>5 DEF JobInv, OneEnd
    <3> QED
      BY <3>1
  <2>2. endsIn(outbox', j) # {} => endsIn(outbox, j) # {} /\ ~isEnd(t, j)
    BY <1>2, <1>7
  <2>3. \A x \in backoff' : isEnd(x, j) => x \in backoff \/ (x = u /\ isEnd(t, j))
    BY <1>3, <1>4
  <2> QED
    BY <1>4, <1>5, <1>7, <2>1, <2>2, <2>3 DEF JobInv, OneEnd
<1>9. Pending(j)' => /\ Pending(j)
                     /\ isEnd(t, j) => failed'[j] = failed[j] + 1
  <2>1. CASE UNCHANGED <<backoff, failed>>
    BY <1>2, <1>4, <1>7, <2>1 DEF Pending
  <2>2. CASE failed' = [failed EXCEPT ![t.of] = @ + 1]
    <3>1. isEnd(t, j) => failed'[j] = failed[j] + 1
      BY <1>3, <2>2 DEF IInv, TypeOK, Items
    <3>2. Pending(j)' => Pending(j)
      BY <1>2, <1>3, <1>4 DEF Pending
    <3> QED
      BY <3>1, <3>2
  <2> QED
    BY <1>4, <2>1, <2>2
<1>10. CountInv(j)'
  <2> SUFFICES ASSUME NEW c \in Chats
               PROVE  /\ ends'[j][c] <= failed'[j] + 1
                      /\ Pending(j)' => ends'[j][c] <= failed'[j]
    BY DEF CountInv
  <2>1. CASE isEnd(t, j)
    <3>1. Pending(j)
      BY <1>3, <2>1 DEF Pending
    <3>2. ends[j][c] <= failed[j]
      BY <1>5, <3>1 DEF JobInv, CountInv
    <3> QED
      BY <1>4, <1>6, <1>9, <2>1, <3>2
  <2>2. CASE ~isEnd(t, j)
    <3>1. ends'[j][c] = ends[j][c]
      BY <1>4, <2>2
    <3>2. ends[j][c] <= failed[j] + 1 /\ (Pending(j) => ends[j][c] <= failed[j])
      BY <1>5 DEF JobInv, CountInv
    <3> QED
      BY <1>6, <1>9, <3>1, <3>2
  <2> QED
    BY <2>1, <2>2
<1>11. StartInv(j)'
  <2> SUFFICES ASSUME failed'[j] = 0
               PROVE  /\ \A x \in backoff' : x.of # j
                      /\ j \notin late'
                      /\ \A i \in startsIn(inbox, j) :
                           /\ \A k \in endsIn(inbox, j) : i < k
                           /\ endsIn(outbox', j) = {}
                           /\ \A c \in Chats : ends'[j][c] = 0
                      /\ \A i \in startsIn(outbox', j) :
                           /\ \A k \in endsIn(outbox', j) : i < k
                           /\ \A c \in Chats : ends'[j][c] = 0
    BY <1>4 DEF StartInv
  <2>1. failed[j] = 0 /\ (UNCHANGED backoff \/ t.of # j)
    <3>1. failed[j] = 0
      BY <1>6
    <3>2. t.of = j /\ failed' = [failed EXCEPT ![t.of] = @ + 1] => failed'[j] = failed[j] + 1
      BY DEF IInv, TypeOK, Items
    <3> QED
      BY <1>4, <1>6, <3>1, <3>2
  <2>2. StartInv(j)
    BY <1>5 DEF JobInv
  <2>3. \A x \in backoff' : x.of # j
    BY <1>4, <2>1, <2>2 DEF StartInv
  <2>4. j \notin late'
    <3>1. isStart(t, j) => \A c \in Chats : ends[j][c] = 0
      BY <1>3, <2>1, <2>2 DEF StartInv
    <3> QED
      BY <1>4, <2>1, <2>2, <3>1 DEF StartInv
  <2>5. ASSUME NEW i \in startsIn(inbox, j)
        PROVE  /\ \A k \in endsIn(inbox, j) : i < k
               /\ endsIn(outbox', j) = {}
               /\ \A c \in Chats : ends'[j][c] = 0
    <3>1. /\ \A k \in endsIn(inbox, j) : i < k
          /\ endsIn(outbox, j) = {}
          /\ \A c \in Chats : ends[j][c] = 0
      BY <2>1, <2>2 DEF StartInv
    <3> QED
      BY <1>2, <1>3, <1>4, <3>1
  <2>6. ASSUME NEW i \in startsIn(outbox', j)
        PROVE  /\ \A k \in endsIn(outbox', j) : i < k
               /\ \A c \in Chats : ends'[j][c] = 0
    <3>1. /\ i + 1 \in startsIn(outbox, j) /\ i \in Nat /\ i + 1 > 1
          /\ \A k \in endsIn(outbox, j) : i + 1 < k
          /\ \A c \in Chats : ends[j][c] = 0
      BY <1>2, <2>1, <2>2 DEF StartInv
    <3>2. ~isEnd(t, j)
      BY <1>3, <3>1
    <3> QED
      BY <1>2, <1>4, <3>1, <3>2
  <2> QED
    BY <2>3, <2>4, <2>5, <2>6
<1> QED
  BY <1>8, <1>10, <1>11 DEF JobInv

\* Putting a task back: its job has a failed attempt.
LEMMA WakesKeeps ==
  ASSUME IInv, NEW t \in Tasks, Wakes(t), NEW j \in Jobs
  PROVE  JobInv(j)'
<1>1. /\ \/ outbox' = outbox
         \/ /\ endsIn(outbox', j) = endsIn(outbox, j) \cup (IF isEnd(t, j) THEN {Len(outbox) + 1} ELSE {})
            /\ startsIn(outbox', j) = startsIn(outbox, j) \cup (IF isStart(t, j) THEN {Len(outbox) + 1} ELSE {})
      /\ \A i \in DOMAIN outbox : i \in Nat /\ i < Len(outbox) + 1
  BY Put DEF IInv, TypeOK, Wakes
<1>2. t \in backoff /\ backoff' = backoff \ {t} /\ UNCHANGED <<phase, inbox, ends, failed, late>>
  BY DEF Wakes
<1>3. JobInv(j)
  BY DEF IInv
<1>4. isEnd(t, j) => /\ endsIn(outbox, j) = {} /\ endsIn(inbox, j) = {} /\ phase[j] = "over"
                     /\ \A x \in backoff' : ~isEnd(x, j)
  BY <1>2, <1>3 DEF JobInv, OneEnd
<1>5. OneEnd(j)'
  BY <1>1, <1>2, <1>3, <1>4 DEF JobInv, OneEnd
<1>6. Pending(j)' => Pending(j)
  BY <1>1, <1>2 DEF Pending
<1>7. CountInv(j)'
  BY <1>2, <1>3, <1>6 DEF JobInv, CountInv
<1>8. StartInv(j)'
  <2>1. failed[j] = 0 => ~isEnd(t, j) /\ ~isStart(t, j)
    BY <1>2, <1>3 DEF JobInv, StartInv, isEnd, isStart
  <2> QED
    BY <1>1, <1>2, <1>3, <2>1 DEF JobInv, StartInv
<1> QED
  BY <1>5, <1>7, <1>8 DEF JobInv

(***************************************************************************)
(* Every step is one of these, or leaves the ends and starts alone.        *)
(***************************************************************************)
\* An event is an event...
LEMMA PublishForm ==
  ASSUME IInv, NEW kind \in Kinds, NEW x \in Items, Publish(kind, x)
  PROVE  LET e == [kind |-> kind, of |-> x] IN
           /\ e \in Events /\ e.kind = kind /\ e.of = x
           /\ inbox' \in {inbox, Append(inbox, e)}
           /\ inbox' \in Seq(Events) /\ Len(inbox') <= SubCap
           /\ lost' \subseteq Items
<1> DEFINE e == [kind |-> kind, of |-> x]
<1>1. e \in Events /\ e.kind = kind /\ e.of = x
  BY DEF Events
<1>2. inbox \in Seq(Events) /\ Len(inbox) <= SubCap /\ lost \subseteq Items
  BY DEF IInv, TypeOK
<1>3. /\ inbox' = inbox \/ (Len(inbox) < SubCap /\ inbox' = Append(inbox, e))
      /\ lost' = lost \/ lost' = lost \cup {x}
  BY DEF Publish
<1> HIDE DEF e
<1>4. inbox' \in Seq(Events) /\ Len(inbox') <= SubCap
  BY <1>1, <1>2, <1>3, CapsAssumption
<1> QED
  BY <1>1, <1>2, <1>3, <1>4 DEF e

\* ...and a task a task, which fits into the outbox or is dropped.
LEMMA EnqueueForm ==
  ASSUME IInv, NEW t \in Tasks, enqueue(t)
  PROVE  /\ outbox' \in {outbox, Append(outbox, t)}
         /\ outbox' \in Seq(Tasks) /\ Len(outbox') <= QueueCap
         /\ lost' \subseteq Items
<1>1. outbox \in Seq(Tasks) /\ Len(outbox) <= QueueCap /\ lost \subseteq Items /\ t.of \in Items
  BY DEF IInv, TypeOK, Tasks
<1>2. outbox' = outbox \/ (Len(outbox) < QueueCap /\ outbox' = Append(outbox, t))
  BY DEF enqueue
<1>3. lost' = lost \/ lost' = lost \cup {t.of}
  BY DEF enqueue
<1> QED
  BY <1>1, <1>2, <1>3, CapsAssumption

\* A new task has the chats of the notifier.
LEMMA TaskForm ==
  ASSUME IInv, notifier # None, NEW kind \in Kinds, NEW x \in Items, NEW ref \in BOOLEAN
  PROVE  LET t == task(kind, x, ref) IN t \in Tasks /\ t.kind = kind /\ t.of = x
<1>1. notifier.chats \in Seq(Chats)
  BY ConfigsAssumption DEF IInv, TypeOK
<1>2. (IF kind = "progress" THEN 0 ELSE Retries) \in 0..Retries
  BY BoundsAssumption
<1> QED
  BY <1>1, <1>2 DEF task, Tasks

\* A task that fails is put back with fewer retries.
LEMMA PutBackForm ==
  ASSUME IInv, outbox # <<>>, PutBack(Head(outbox))
  PROVE  LET t == Head(outbox) IN
           /\ \E u \in Tasks :
                /\ u.kind = t.kind /\ u.of = t.of
                /\ backoff' \in {backoff, backoff \cup {u}}
           /\ failed' = [failed EXCEPT ![t.of] = @ + 1] /\ failed' \in [Items -> 0..MaxFaults]
           /\ outbox' = Tail(outbox)
           /\ lost' \subseteq Items
<1> DEFINE t == Head(outbox)
           u == [t EXCEPT !.retries = @ - 1]
<1>1. t \in Tasks
  BY DEF IInv, TypeOK
<1>2. /\ failed[t.of] < MaxFaults
      /\ failed' = [failed EXCEPT ![t.of] = @ + 1]
      /\ outbox' = Tail(outbox)
      /\ \/ t.retries > 0 /\ backoff' = backoff \cup {u}
         \/ UNCHANGED backoff
      /\ lost' = lost \/ lost' = lost \cup {t.of}
  BY DEF PutBack
<1> HIDE DEF t
<1>3. t.of \in Items
  BY <1>1 DEF Tasks
<1>4. failed' \in [Items -> 0..MaxFaults]
  <2>1. failed \in [Items -> 0..MaxFaults]
    BY DEF IInv, TypeOK
  <2>2. failed[t.of] + 1 \in 0..MaxFaults
    BY <1>2, <1>3, <2>1, BoundsAssumption
  <2> QED
    BY <1>2, <2>1, <2>2
<1>5. t.retries > 0 => u \in Tasks /\ u.kind = t.kind /\ u.of = t.of
  BY <1>1, BoundsAssumption DEF Tasks
<1>6. \E w \in Tasks : /\ w.kind = t.kind /\ w.of = t.of
                       /\ backoff' \in {backoff, backoff \cup {w}}
  BY <1>1, <1>2, <1>5
<1>7. lost' \subseteq Items
  BY <1>2, <1>3 DEF IInv, TypeOK
<1> QED
  BY <1>2, <1>4, <1>6, <1>7 DEF t

\* The first task of the outbox.
LEMMA HeadForm ==
  ASSUME IInv, idle
  PROVE  LET t == Head(outbox) IN
           /\ t \in Tasks /\ t.of \in Items /\ outbox # <<>>
           /\ t.kind # "alert" => t.of \in Jobs
           /\ t.kind = "alert" => t.of \in Alerts
           /\ Tail(outbox) \in Seq(Tasks) /\ Len(Tail(outbox)) <= QueueCap
<1>1. /\ outbox \in Seq(Tasks) /\ outbox # <<>> /\ Len(outbox) <= QueueCap
      /\ \A i \in DOMAIN outbox : fits(outbox[i])
  BY DEF idle, IInv, TypeOK, KindsInv
<1>2. /\ Head(outbox) \in Tasks /\ Head(outbox) = outbox[1] /\ 1 \in DOMAIN outbox
      /\ Tail(outbox) \in Seq(Tasks) /\ Len(Tail(outbox)) <= QueueCap
  BY <1>1, CapsAssumption
<1>3. fits(Head(outbox)) /\ Head(outbox).of \in Items
  BY <1>1, <1>2 DEF Tasks
<1> QED
  BY <1>1, <1>2, <1>3 DEF fits, Items

\* Telling some chats.
LEMMA ReachedForm ==
  ASSUME NEW count \in [Chats -> Nat], NEW chats
  PROVE  /\ reached(count, chats) \in [Chats -> Nat]
         /\ \A c \in Chats : reached(count, chats)[c] <= count[c] + 1
BY DEF reached

\* The engine's steps publish.
LEMMA EngineStep ==
  ASSUME IInv,
         (\E j \in Jobs : JobStarts(j) \/ JobProgresses(j) \/ JobEnds(j)) \/ \E a \in Alerts : Raise(a)
  PROVE  TypeOK' /\ OnePoller' /\ \E e \in Events : Publishes(e)
<1>1. ASSUME NEW j \in Jobs, JobStarts(j)
      PROVE  TypeOK' /\ OnePoller' /\ \E e \in Events : Publishes(e)
  <2> DEFINE e == [kind |-> "started", of |-> j]
  <2>1. /\ e \in Events /\ e.kind = "started" /\ e.of = j
        /\ inbox' \in {inbox, Append(inbox, e)}
        /\ inbox' \in Seq(Events) /\ Len(inbox') <= SubCap /\ lost' \subseteq Items
    BY <1>1, PublishForm DEF JobStarts, Kinds, Items
  <2> HIDE DEF e
  <2>2. TypeOK' /\ OnePoller'
    BY <1>1, <2>1 DEF JobStarts, IInv, TypeOK, OnePoller, configVars, chatVars
  <2>3. Publishes(e)
    BY <1>1, <2>1, NamesAssumption
    DEF JobStarts, Publishes, fits, isEnd, isStart, chatVars, IInv, TypeOK
  <2> QED
    BY <2>1, <2>2, <2>3
<1>2. ASSUME NEW j \in Jobs, JobProgresses(j)
      PROVE  TypeOK' /\ OnePoller' /\ \E e \in Events : Publishes(e)
  <2> DEFINE e == [kind |-> "progress", of |-> j]
  <2>1. /\ e \in Events /\ e.kind = "progress" /\ e.of = j
        /\ inbox' \in {inbox, Append(inbox, e)}
        /\ inbox' \in Seq(Events) /\ Len(inbox') <= SubCap /\ lost' \subseteq Items
    BY <1>2, PublishForm DEF JobProgresses, Kinds, Items
  <2> HIDE DEF e
  <2>2. TypeOK' /\ OnePoller'
    BY <1>2, <2>1, BoundsAssumption DEF JobProgresses, IInv, TypeOK, OnePoller, configVars, chatVars
  <2>3. Publishes(e)
    BY <1>2, <2>1, NamesAssumption DEF JobProgresses, Publishes, fits, isEnd, isStart, chatVars
  <2> QED
    BY <2>1, <2>2, <2>3
<1>3. ASSUME NEW j \in Jobs, JobEnds(j)
      PROVE  TypeOK' /\ OnePoller' /\ \E e \in Events : Publishes(e)
  <2>1. PICK kind \in {"completed", "failed"} :
          /\ phase[j] \in (IF kind = "completed" THEN {"copying"} ELSE {"new", "copying"})
          /\ Publish(kind, j)
    BY <1>3 DEF JobEnds
  <2> DEFINE e == [kind |-> kind, of |-> j]
  <2>2. /\ e \in Events /\ e.kind = kind /\ e.of = j
        /\ inbox' \in {inbox, Append(inbox, e)}
        /\ inbox' \in Seq(Events) /\ Len(inbox') <= SubCap /\ lost' \subseteq Items
    BY <2>1, PublishForm DEF Kinds, Items
  <2> HIDE DEF e
  <2>3. TypeOK' /\ OnePoller'
    BY <1>3, <2>2 DEF JobEnds, IInv, TypeOK, OnePoller, configVars, chatVars
  <2>4. Publishes(e)
    BY <1>3, <2>1, <2>2, NamesAssumption
    DEF JobEnds, Publishes, fits, isEnd, isStart, chatVars, IInv, TypeOK
  <2> QED
    BY <2>2, <2>3, <2>4
<1>4. ASSUME NEW a \in Alerts, Raise(a)
      PROVE  TypeOK' /\ OnePoller' /\ \E e \in Events : Publishes(e)
  <2> DEFINE e == [kind |-> "alert", of |-> a]
  <2>1. /\ e \in Events /\ e.kind = "alert" /\ e.of = a
        /\ inbox' \in {inbox, Append(inbox, e)}
        /\ inbox' \in Seq(Events) /\ Len(inbox') <= SubCap /\ lost' \subseteq Items
    BY <1>4, PublishForm DEF Raise, Kinds, Items
  <2> HIDE DEF e
  <2>2. TypeOK' /\ OnePoller'
    BY <1>4, <2>1 DEF Raise, IInv, TypeOK, OnePoller, configVars, chatVars
  <2>3. Publishes(e)
    BY <1>4, <2>1 DEF Raise, Publishes, fits, isEnd, isStart, chatVars
  <2> QED
    BY <2>1, <2>2, <2>3
<1> QED
  BY <1>1, <1>2, <1>3, <1>4

\* The dispatcher handles an event.
LEMMA HandleStep ==
  ASSUME IInv, Handle
  PROVE  TypeOK' /\ OnePoller' /\ \E t \in Tasks : Handles(t)
<1> DEFINE e == Head(inbox)
<1>1. /\ inbox \in Seq(Events) /\ inbox # <<>> /\ Len(inbox) <= SubCap
      /\ inbox' = Tail(inbox)
      /\ UNCHANGED <<engineVars, configVars, backoff, sending, chatVars, failed>>
  BY DEF Handle, IInv, TypeOK
<1>2. inbox' \in Seq(Events) /\ Len(inbox') <= SubCap /\ e \in Events /\ e = inbox[1] /\ 1 \in DOMAIN inbox
  BY <1>1, CapsAssumption
<1>3. e.kind \in Kinds /\ e.of \in Items /\ fits(e)
  BY <1>2 DEF Events, IInv, KindsInv
<1>4. \/ /\ notifier = None
         /\ lost' = IF Matters(e.kind) THEN lost \cup {e.of} ELSE lost
         /\ UNCHANGED <<msgs, outbox>>
      \/ /\ notifier # None /\ e.kind = "started"
         /\ msgs' = [msgs EXCEPT ![e.of] = FALSE]
         /\ enqueue(task("started", e.of, FALSE))
      \/ /\ notifier # None /\ e.kind = "progress"
         /\ enqueue(task("progress", e.of, TRUE)) \/ UNCHANGED <<outbox, lost>>
         /\ UNCHANGED msgs
      \/ /\ notifier # None /\ e.kind \in {"completed", "failed"}
         /\ msgs' = [msgs EXCEPT ![e.of] = None]
         /\ enqueue(task(e.kind, e.of, takeState(e.of)))
      \/ /\ notifier # None /\ e.kind = "alert"
         /\ enqueue(task("alert", e.of, FALSE))
         /\ UNCHANGED msgs
  BY DEF Handle
<1> HIDE DEF e
<1>5. msgs' \in [Jobs -> BOOLEAN \cup {None}]
  BY <1>4 DEF IInv, TypeOK
<1>6. \E t \in Tasks :
        /\ t.kind = e.kind /\ t.of = e.of
        /\ outbox' \in {outbox, Append(outbox, t)}
        /\ outbox' \in Seq(Tasks) /\ Len(outbox') <= QueueCap /\ lost' \subseteq Items
  <2>1. ASSUME UNCHANGED outbox, lost' = lost \/ lost' = lost \cup {e.of}
        PROVE  <1>6!:
    <3> DEFINE t == [kind |-> e.kind, of |-> e.of, to |-> <<>>, ref |-> FALSE, retries |-> 0]
    <3>1. t \in Tasks /\ t.kind = e.kind /\ t.of = e.of
      BY <1>3, BoundsAssumption DEF Tasks
    <3> HIDE DEF t
    <3> QED
      BY <1>3, <2>1, <3>1 DEF IInv, TypeOK
  <2>2. ASSUME NEW ref \in BOOLEAN, notifier # None, enqueue(task(e.kind, e.of, ref))
        PROVE  <1>6!:
    BY <1>3, <2>2, TaskForm, EnqueueForm
  <2> QED
    BY <1>4, <2>1, <2>2 DEF takeState
<1>7. TypeOK' /\ OnePoller'
  BY <1>1, <1>2, <1>5, <1>6 DEF IInv, TypeOK, OnePoller, engineVars, configVars, chatVars
<1>8. \E t \in Tasks : Handles(t)
  BY <1>1, <1>6 DEF Handles, e, engineVars, chatVars
<1> QED
  BY <1>7, <1>8

\* A task that waited wakes.
LEMMA WakeStep ==
  ASSUME IInv, Wake
  PROVE  TypeOK' /\ OnePoller' /\ \E t \in Tasks : Wakes(t)
<1>1. PICK t \in backoff :
        /\ backoff' = backoff \ {t}
        /\ enqueue(t)
        /\ UNCHANGED <<engineVars, inbox, configVars, msgs, sending, chatVars, failed>>
  BY DEF Wake
<1>2. t \in Tasks
  BY DEF IInv, TypeOK
<1>3. /\ outbox' \in {outbox, Append(outbox, t)}
      /\ outbox' \in Seq(Tasks) /\ Len(outbox') <= QueueCap /\ lost' \subseteq Items
  BY <1>1, <1>2, EnqueueForm
<1>4. TypeOK' /\ OnePoller'
  BY <1>1, <1>3 DEF IInv, TypeOK, OnePoller, engineVars, configVars, chatVars
<1>5. Wakes(t)
  BY <1>1, <1>3 DEF Wakes, engineVars, chatVars
<1> QED
  BY <1>2, <1>4, <1>5

\* The settings, the bot and the reference of a message.
LEMMA ConfigStep ==
  ASSUME IInv, ChangeSettings \/ superviseTelegram \/ RecordStart
  PROVE  TypeOK' /\ OnePoller' /\ UNCHANGED core
<1>1. CASE ChangeSettings
  BY <1>1, BoundsAssumption DEF ChangeSettings, IInv, TypeOK, OnePoller, core, engineVars, chatVars
<1>2. CASE superviseTelegram
  <2>1. stopped = 0
    BY DEF IInv, OnePoller, stopped
  <2>2. settings \in Configs /\ settings # None /\ Off \in Configs
    BY NamesAssumption, ConfigsAssumption DEF IInv, TypeOK
  <2>3. /\ applied' \in Configs /\ notifier' \in Configs \cup {None}
        /\ bots' = (IF notifier' = None THEN 0 ELSE 1)
        /\ builds' \in 0..MaxBuildFails
    BY <1>2, <2>1, <2>2, BoundsAssumption DEF superviseTelegram, IInv, TypeOK
  <2>4. UNCHANGED <<engineVars, inbox, settings, changes, msgs, outbox, backoff, sending,
                    chatVars, lost, failed>>
    BY <1>2 DEF superviseTelegram
  <2> QED
    BY <2>3, <2>4 DEF IInv, TypeOK, OnePoller, core, engineVars, chatVars
<1>3. CASE RecordStart
  <2>1. msgs' \in [Jobs -> BOOLEAN \cup {None}]
    BY <1>3 DEF RecordStart, IInv, TypeOK
  <2> QED
    BY <1>3, <2>1 DEF RecordStart, IInv, TypeOK, OnePoller, core, engineVars, configVars, chatVars
<1> QED
  BY <1>1, <1>2, <1>3

\* The worker runs the first task of the outbox.
LEMMA SendStep ==
  ASSUME IInv, SendStart \/ SendProgress \/ SendEnd \/ SendAlert
  PROVE  TypeOK' /\ OnePoller' /\ \E u \in Tasks : Sends(u)
<1> DEFINE t == Head(outbox)
<1>1. idle
  BY DEF SendStart, SendProgress, SendEnd, SendAlert
<1>2. /\ t \in Tasks /\ t.of \in Items /\ outbox # <<>>
      /\ t.kind # "alert" => t.of \in Jobs
      /\ t.kind = "alert" => t.of \in Alerts
      /\ Tail(outbox) \in Seq(Tasks) /\ Len(Tail(outbox)) <= QueueCap
  BY <1>1, HeadForm
<1>3. PutBack(t) =>
        /\ \E u \in Tasks :
             /\ u.kind = t.kind /\ u.of = t.of
             /\ backoff' \in {backoff, backoff \cup {u}}
        /\ failed' = [failed EXCEPT ![t.of] = @ + 1] /\ failed' \in [Items -> 0..MaxFaults]
        /\ outbox' = Tail(outbox)
        /\ lost' \subseteq Items
  BY <1>2, PutBackForm
<1> HIDE DEF t
<1> DEFINE Ran == outbox' = Tail(outbox) /\ UNCHANGED <<backoff, lost, failed>>
<1>4. ASSUME Ran \/ PutBack(t)
      PROVE  /\ outbox' = Tail(outbox) /\ lost' \subseteq Items
             /\ failed' \in [Items -> 0..MaxFaults] /\ backoff' \subseteq Tasks
             /\ \E u \in Tasks :
                  /\ u.kind = t.kind /\ u.of = t.of
                  /\ \/ UNCHANGED <<backoff, failed>>
                     \/ /\ failed' = [failed EXCEPT ![t.of] = @ + 1]
                        /\ backoff' \in {backoff, backoff \cup {u}}
  <2>1. CASE Ran
    BY <1>2, <2>1 DEF IInv, TypeOK
  <2>2. CASE PutBack(t)
    BY <1>3, <2>2 DEF IInv, TypeOK
  <2> QED
    BY <1>4, <2>1, <2>2
<1> HIDE DEF Ran
<1>5. ends \in [Jobs -> [Chats -> Nat]] /\ told \in [Alerts -> [Chats -> Nat]]
  BY DEF IInv, TypeOK
\* What is left to show of each of the four.
<1>6. ASSUME Ran \/ PutBack(t),
             UNCHANGED <<engineVars, inbox, configVars, msgs>>,
             shown' \in [Jobs -> Stages], sending' \in Jobs \cup {None},
             late' \subseteq Jobs, told' \in [Alerts -> [Chats -> Nat]],
             ends' \in [Jobs -> [Chats -> Nat]],
             \A j \in Jobs :
               /\ ~isEnd(t, j) => ends'[j] = ends[j]
               /\ \A c \in Chats : ends'[j][c] <= ends[j][c] + 1
               /\ j \in late' \ late => isStart(t, j) /\ \E c \in Chats : ends[j][c] > 0
      PROVE  TypeOK' /\ OnePoller' /\ \E u \in Tasks : Sends(u)
  <2>1. TypeOK' /\ OnePoller'
    BY <1>2, <1>4, <1>6 DEF IInv, TypeOK, OnePoller, engineVars, configVars
  <2>2. PICK u \in Tasks :
          /\ u.kind = t.kind /\ u.of = t.of
          /\ \/ UNCHANGED <<backoff, failed>>
             \/ /\ failed' = [failed EXCEPT ![t.of] = @ + 1]
                /\ backoff' \in {backoff, backoff \cup {u}}
    BY <1>4, <1>6
  <2>3. \A j \in Jobs, c \in Chats : ends'[j][c] \in Nat
    BY <1>6
  <2>4. outbox' = Tail(outbox)
    BY <1>4, <1>6
  <2>5. Sends(u)
    BY <1>2, <1>6, <2>2, <2>3, <2>4 DEF Sends, t, engineVars
  <2> QED
    BY <2>1, <2>5
<1>7. CASE SendStart
  <2>1. t.kind = "started" /\ t.of \in Jobs
    BY <1>2, <1>7 DEF SendStart, t
  <2>2. /\ UNCHANGED <<engineVars, inbox, configVars, msgs, ends, told>>
        /\ \/ late' = late
           \/ late' = late \cup {t.of} /\ \E c \in Chats : ends[t.of][c] > 0
        /\ \/ shown' = shown /\ sending' = sending
           \/ shown' = [shown EXCEPT ![t.of] = "start"] /\ sending' = t.of
        /\ Ran \/ PutBack(t)
    BY <1>7 DEF SendStart, t, Ran
  <2>3. \A j \in Jobs : /\ ~isEnd(t, j) => ends'[j] = ends[j]
                        /\ \A c \in Chats : ends'[j][c] <= ends[j][c] + 1
    BY <1>5, <2>2
  <2>4. \A j \in Jobs : j \in late' \ late => isStart(t, j) /\ \E c \in Chats : ends[j][c] > 0
    BY <2>1, <2>2 DEF isStart
  <2>5. shown' \in [Jobs -> Stages] /\ sending' \in Jobs \cup {None} /\ late' \subseteq Jobs
    BY <2>1, <2>2 DEF IInv, TypeOK, Stages
  <2> QED
    BY <1>5, <1>6, <2>2, <2>3, <2>4, <2>5
<1>8. CASE SendProgress
  <2>1. /\ UNCHANGED <<engineVars, inbox, configVars, msgs, sending, ends, late, told>>
        /\ shown' \in {shown, [shown EXCEPT ![t.of] = "progress"]}
        /\ Ran
    BY <1>8 DEF SendProgress, t, Ran
  <2>2. shown' \in [Jobs -> Stages]
    BY <2>1 DEF IInv, TypeOK, Stages
  <2>3. \A j \in Jobs : /\ ~isEnd(t, j) => ends'[j] = ends[j]
                        /\ \A c \in Chats : ends'[j][c] <= ends[j][c] + 1
                        /\ j \notin late' \ late
    BY <1>5, <2>1
  <2> QED
    BY <1>5, <1>6, <2>1, <2>2, <2>3 DEF IInv, TypeOK
<1>9. CASE SendEnd
  <2>1. t.kind \in {"completed", "failed"} /\ t.of \in Jobs
    BY <1>2, <1>9 DEF SendEnd, t
  <2>2. PICK some : /\ ends' = [ends EXCEPT ![t.of] = reached(@, some)]
                    /\ Ran \/ PutBack(t)
    BY <1>9 DEF SendEnd, t, Ran
  <2>3. /\ UNCHANGED <<engineVars, inbox, configVars, msgs, sending, late, told>>
        /\ shown' \in {shown, [shown EXCEPT ![t.of] = "end"]}
    BY <1>9 DEF SendEnd, t
  <2>4. shown' \in [Jobs -> Stages]
    BY <2>3 DEF IInv, TypeOK, Stages
  <2>5. /\ reached(ends[t.of], some) \in [Chats -> Nat]
        /\ \A c \in Chats : reached(ends[t.of], some)[c] <= ends[t.of][c] + 1
    BY <1>5, <2>1, ReachedForm
  <2>6. ends' \in [Jobs -> [Chats -> Nat]]
    BY <1>5, <2>1, <2>2, <2>5
  <2>7. ASSUME NEW j \in Jobs
        PROVE  /\ ~isEnd(t, j) => ends'[j] = ends[j]
               /\ \A c \in Chats : ends'[j][c] <= ends[j][c] + 1
               /\ j \notin late' \ late
    <3>1. CASE j = t.of
      <4>1. ends'[j] = reached(ends[t.of], some)
        BY <1>5, <2>2, <3>1
      <4> QED
        BY <2>1, <2>3, <2>5, <3>1, <4>1 DEF isEnd
    <3>2. CASE j # t.of
      <4>1. ends'[j] = ends[j]
        BY <1>5, <2>2, <3>2
      <4> QED
        BY <1>5, <2>3, <4>1
    <3> QED
      BY <3>1, <3>2
  <2> QED
    BY <1>5, <1>6, <2>2, <2>3, <2>4, <2>6, <2>7 DEF IInv, TypeOK
<1>10. CASE SendAlert
  <2>1. t.of \in Alerts
    BY <1>2, <1>10 DEF SendAlert, t
  <2>2. PICK some : /\ told' = [told EXCEPT ![t.of] = reached(@, some)]
                    /\ Ran \/ PutBack(t)
    BY <1>10 DEF SendAlert, t, Ran
  <2>3. UNCHANGED <<engineVars, inbox, configVars, msgs, sending, shown, ends, late>>
    BY <1>10 DEF SendAlert
  <2>4. told' \in [Alerts -> [Chats -> Nat]]
    BY <1>5, <2>1, <2>2, ReachedForm
  <2>5. \A j \in Jobs : /\ ~isEnd(t, j) => ends'[j] = ends[j]
                        /\ \A c \in Chats : ends'[j][c] <= ends[j][c] + 1
                        /\ j \notin late' \ late
    BY <1>5, <2>3
  <2> QED
    BY <1>5, <1>6, <2>2, <2>3, <2>4, <2>5 DEF IInv, TypeOK
<1> QED
  BY <1>7, <1>8, <1>9, <1>10

\* The kinds of events and tasks go on fitting what they are about.
LEMMA KindsStep ==
  ASSUME IInv,
         \/ UNCHANGED core
         \/ \E e \in Events : Publishes(e)
         \/ \E t \in Tasks : Handles(t) \/ Sends(t) \/ Wakes(t)
  PROVE  KindsInv'
<1>1. /\ inbox \in Seq(Events) /\ outbox \in Seq(Tasks)
      /\ \A i \in DOMAIN inbox : fits(inbox[i])
      /\ \A i \in DOMAIN outbox : fits(outbox[i])
      /\ \A t \in backoff : fits(t)
  BY DEF IInv, TypeOK, KindsInv
<1>2. CASE UNCHANGED core
  BY <1>1, <1>2 DEF core, KindsInv
<1>3. ASSUME NEW e \in Events, Publishes(e) PROVE KindsInv'
  <2>1. \A i \in DOMAIN inbox' : fits(inbox'[i])
    BY <1>1, <1>3, Longer DEF Publishes
  <2> QED
    BY <1>1, <1>3, <2>1 DEF Publishes, KindsInv
<1>4. ASSUME NEW t \in Tasks, Handles(t) PROVE KindsInv'
  <2>1. /\ \A i \in DOMAIN inbox' : i + 1 \in DOMAIN inbox /\ inbox'[i] = inbox[i + 1]
        /\ Head(inbox) = inbox[1] /\ 1 \in DOMAIN inbox
    BY <1>1, <1>4, Shorter DEF Handles
  <2>2. fits(t)
    BY <1>1, <1>4, <2>1 DEF Handles, fits
  <2>3. \A i \in DOMAIN outbox' : fits(outbox'[i])
    BY <1>1, <1>4, <2>2, Put DEF Handles
  <2> QED
    BY <1>1, <1>4, <2>1, <2>3 DEF Handles, KindsInv
<1>5. ASSUME NEW u \in Tasks, Sends(u) PROVE KindsInv'
  <2>1. outbox # <<>> /\ outbox' = Tail(outbox) /\ UNCHANGED inbox
        /\ u.kind = Head(outbox).kind /\ u.of = Head(outbox).of
        /\ backoff' \in {backoff, backoff \cup {u}}
    BY <1>5 DEF Sends
  <2>2. /\ \A i \in DOMAIN outbox' : i + 1 \in DOMAIN outbox /\ outbox'[i] = outbox[i + 1]
        /\ Head(outbox) = outbox[1] /\ 1 \in DOMAIN outbox
    BY <1>1, <2>1, Shorter
  <2>3. fits(u)
    BY <1>1, <2>1, <2>2 DEF fits
  <2> QED
    BY <1>1, <2>1, <2>2, <2>3 DEF KindsInv
<1>6. ASSUME NEW t \in Tasks, Wakes(t) PROVE KindsInv'
  <2>1. \A i \in DOMAIN outbox' : fits(outbox'[i])
    BY <1>1, <1>6, Put DEF Wakes
  <2> QED
    BY <1>1, <1>6, <2>1 DEF Wakes, KindsInv
<1> QED
  BY <1>2, <1>3, <1>4, <1>5, <1>6

\* Every step keeps the inductive invariant.
LEMMA StepKeeps ==
  ASSUME IInv, [Next]_vars
  PROVE  IInv'
<1>1. UNCHANGED vars => TypeOK' /\ OnePoller' /\ UNCHANGED core
  BY DEF vars, core, engineVars, configVars, chatVars, IInv, TypeOK, OnePoller
<1>2. /\ TypeOK' /\ OnePoller'
      /\ \/ UNCHANGED core
         \/ \E e \in Events : Publishes(e)
         \/ \E t \in Tasks : Handles(t) \/ Sends(t) \/ Wakes(t)
  BY <1>1, EngineStep, HandleStep, WakeStep, ConfigStep, SendStep DEF Next
<1>3. KindsInv'
  BY <1>2, KindsStep
<1>4. ASSUME NEW j \in Jobs PROVE JobInv(j)'
  <2>1. CASE UNCHANGED core
    BY <2>1 DEF core, IInv, JobInv, OneEnd, CountInv, StartInv, Pending, endsIn, startsIn
  <2> QED
    BY <1>2, <2>1, PublishesKeeps, HandlesKeeps, SendsKeeps, WakesKeeps
<1> QED
  BY <1>2, <1>3, <1>4 DEF IInv

(***************************************************************************)
(* The theorems.                                                           *)
(***************************************************************************)
\* The inductive invariant holds in every state.
THEOREM Inductive == Spec => []IInv
<1>1. Init => IInv
  <2> SUFFICES ASSUME Init PROVE IInv
    OBVIOUS
  <2>1. TypeOK
    BY BoundsAssumption, CapsAssumption, ConfigsAssumption DEF Init, TypeOK, Items, Stages
  <2>2. KindsInv /\ OnePoller
    BY DEF Init, KindsInv, OnePoller
  <2>3. ASSUME NEW j \in Jobs PROVE JobInv(j)
    <3>1. endsIn(inbox, j) = {} /\ startsIn(inbox, j) = {} /\ endsIn(outbox, j) = {} /\ startsIn(outbox, j) = {}
      BY DEF Init, endsIn, startsIn
    <3> QED
      BY <3>1 DEF Init, JobInv, OneEnd, CountInv, StartInv, Items
  <2> QED
    BY <2>1, <2>2, <2>3 DEF IInv
<1>2. IInv /\ [Next]_vars => IInv'
  BY StepKeeps
<1> QED
  BY <1>1, <1>2, PTL DEF Spec

\* Queues keep their limits, and every task is one its configuration can
\* deliver.
THEOREM TypeCorrect == Spec => []TypeOK
<1>1. IInv => TypeOK
  BY DEF IInv
<1> QED
  BY <1>1, Inductive, PTL

\* However often the settings change and the bot cannot be built, one bot
\* polls when there is a notifier and none otherwise.
THEOREM PollersCounted == Spec => []OnePoller
<1>1. IInv => OnePoller
  BY DEF IInv
<1> QED
  BY <1>1, Inductive, PTL

\* A start is announced after the end, and an end twice to one chat, only
\* after an attempt of that job failed.
THEOREM OrderKept == Spec => []OrderUnlessRetried
<1>1. IInv => OrderUnlessRetried
  <2> SUFFICES ASSUME IInv, NEW j \in Jobs
               PROVE  (j \in late => failed[j] > 0) /\ \A c \in Chats : ends[j][c] <= 1 + failed[j]
    BY DEF OrderUnlessRetried
  <2>1. JobInv(j) /\ failed[j] \in Nat
    BY DEF IInv, TypeOK, Items
  <2> QED
    BY <2>1 DEF JobInv, CountInv, StartInv
<1> QED
  BY <1>1, Inductive, PTL

(***************************************************************************)
(* The second layer: which messages are still to come. Where IInv counts   *)
(* attempts, this says where the start of a job, its reference and its     *)
(* edits can be.                                                           *)
(***************************************************************************)
isProgress(x, j) == x.kind = "progress" /\ x.of = j
\* A task that makes the start message say that the job is over.
isEdit(t, j) == isEnd(t, j) /\ t.ref

NoStart(j) ==
  /\ startsIn(inbox, j) = {} /\ startsIn(outbox, j) = {}
  /\ \A t \in backoff : ~isStart(t, j)
  /\ sending # j

\* The start of a job is in one place: an event, a task, a task that waits,
\* a message whose reference is not yet recorded, or gone. With a known
\* reference it is gone.
OneStart(j) ==
  /\ phase[j] = "new" \/ msgs[j] = TRUE => NoStart(j)
  /\ phase[j] = "new" => msgs[j] # TRUE
  /\ \A i, k \in startsIn(inbox, j) : i = k
  /\ \A i, k \in startsIn(outbox, j) : i = k
  /\ \A t, u \in backoff : isStart(t, j) /\ isStart(u, j) => t = u
  /\ startsIn(inbox, j) # {} =>
       startsIn(outbox, j) = {} /\ (\A t \in backoff : ~isStart(t, j)) /\ sending # j
  /\ startsIn(outbox, j) # {} => (\A t \in backoff : ~isStart(t, j)) /\ sending # j
  /\ sending = j => \A t \in backoff : ~isStart(t, j)

StartFirst(j) == \A i \in startsIn(inbox, j), k \in endsIn(inbox, j) : i < k

\* Once the start message says that the job is over, or a task will make it
\* say so, nothing that could overwrite it is left but progress edits queued
\* before that task.
Edited(j) ==
  \/ shown[j] = "end"
  \/ \E k \in DOMAIN outbox : isEdit(outbox[k], j)
  \/ \E t \in backoff : isEdit(t, j)
LastWord(j) ==
  /\ Edited(j) => phase[j] = "over" /\ msgs[j] # TRUE /\ NoStart(j)
  /\ \A i \in DOMAIN outbox : isProgress(outbox[i], j) =>
       /\ shown[j] # "end" /\ \A t \in backoff : ~isEdit(t, j)
       /\ \A k \in DOMAIN outbox : isEdit(outbox[k], j) => i < k

WordInv(j) == OneStart(j) /\ StartFirst(j) /\ LastWord(j)

\* Every task goes to the chats of a configuration that can be used, and no
\* progress edit waits to be tried again.
deliverable(t) == \E c \in Configs : usable(c) /\ t.to = c.chats
TasksInv ==
  /\ notifier # None => usable(notifier)
  /\ \A i \in DOMAIN outbox : deliverable(outbox[i])
  /\ \A t \in backoff : deliverable(t) /\ t.kind # "progress"

\* An entry of d.jobs that outlives its job, or will, has the end still to
\* come or lost.
EntryInv(j) ==
  (msgs[j] # None \/ startsIn(inbox, j) # {}) /\ phase[j] = "over" =>
    j \in lost \/ endsIn(inbox, j) # {}

\* An end or an alert is lost, on its way, or at all chats.
Settled(x, count) == x \in lost \/ carried(x) \/ everyone(count)
SettledInv ==
  /\ \A j \in Jobs : phase[j] = "over" => Settled(j, ends[j])
  /\ \A a \in raised : Settled(a, told[a])

WInv == TasksInv /\ SettledInv /\ \A j \in Jobs : WordInv(j) /\ EntryInv(j)

(***************************************************************************)
(* Sequences again: the elements of one that got longer or shorter.        *)
(***************************************************************************)
LEMMA Appended ==
  ASSUME NEW S, NEW s \in Seq(S), NEW e \in S
  PROVE  LET t == Append(s, e) IN
           /\ DOMAIN t = DOMAIN s \cup {Len(s) + 1} /\ t[Len(s) + 1] = e
           /\ \A i \in DOMAIN s : t[i] = s[i] /\ i \in Nat /\ i < Len(s) + 1
OBVIOUS

LEMMA StartsLonger ==
  ASSUME NEW S, NEW s \in Seq(S), NEW e \in S, NEW j
  PROVE  LET t == Append(s, e) IN
           /\ startsIn(t, j) = startsIn(s, j) \cup (IF isStart(e, j) THEN {Len(s) + 1} ELSE {})
           /\ DOMAIN t = DOMAIN s \cup {Len(s) + 1} /\ t[Len(s) + 1] = e
           /\ \A i \in DOMAIN s : t[i] = s[i] /\ i \in Nat /\ i < Len(s) + 1
<1>1. startsIn(Append(s, e), j) = startsIn(s, j) \cup (IF isStart(e, j) THEN {Len(s) + 1} ELSE {})
  BY Longer
<1> QED
  BY <1>1, Appended

LEMMA Shifted ==
  ASSUME NEW S, NEW s \in Seq(S), s # <<>>
  PROVE  LET t == Tail(s) IN
           /\ Head(s) \in S /\ Head(s) = s[1] /\ 1 \in DOMAIN s
           /\ \A i \in DOMAIN t : i \in Nat /\ i + 1 > 1 /\ i + 1 \in DOMAIN s /\ t[i] = s[i + 1]
           /\ \A i \in DOMAIN s : i = 1 \/ (i - 1 \in DOMAIN t /\ t[i - 1] = s[i])
OBVIOUS

\* What is on its way in a queue.
bears(s, x) == \E i \in DOMAIN s : s[i].of = x /\ Matters(s[i].kind)

LEMMA BearsLonger ==
  ASSUME NEW S, NEW s \in Seq(S), NEW e \in S, NEW x
  PROVE  bears(Append(s, e), x) <=> bears(s, x) \/ (e.of = x /\ Matters(e.kind))
<1> DEFINE t == Append(s, e)
<1>1. /\ DOMAIN t = DOMAIN s \cup {Len(s) + 1} /\ t[Len(s) + 1] = e
      /\ \A i \in DOMAIN s : t[i] = s[i]
  BY Appended
<1> HIDE DEF t
<1>2. bears(t, x) <=> bears(s, x) \/ (e.of = x /\ Matters(e.kind))
  BY <1>1 DEF bears
<1> QED
  BY <1>2 DEF t

LEMMA BearsShorter ==
  ASSUME NEW S, NEW s \in Seq(S), s # <<>>, NEW x
  PROVE  bears(s, x) <=> bears(Tail(s), x) \/ (Head(s).of = x /\ Matters(Head(s).kind))
<1> DEFINE t == Tail(s)
<1>1. /\ Head(s) = s[1] /\ 1 \in DOMAIN s
      /\ \A i \in DOMAIN t : i + 1 \in DOMAIN s /\ t[i] = s[i + 1]
      /\ \A i \in DOMAIN s : i = 1 \/ (i - 1 \in DOMAIN t /\ t[i - 1] = s[i])
  BY Shifted
<1> HIDE DEF t
<1>2. ASSUME bears(s, x) PROVE bears(t, x) \/ (Head(s).of = x /\ Matters(Head(s).kind))
  <2>1. PICK i \in DOMAIN s : s[i].of = x /\ Matters(s[i].kind)
    BY <1>2 DEF bears
  <2> QED
    BY <1>1, <2>1 DEF bears
<1>3. bears(t, x) \/ (Head(s).of = x /\ Matters(Head(s).kind)) => bears(s, x)
  BY <1>1 DEF bears
<1> QED
  BY <1>2, <1>3 DEF t

(***************************************************************************)
(* No end is forgotten.                                                    *)
(***************************************************************************)
waits(x) == \E t \in backoff : t.of = x /\ Matters(t.kind)

LEMMA CarriedForm ==
  ASSUME NEW x
  PROVE  carried(x) <=> bears(inbox, x) \/ bears(outbox, x) \/ waits(x)
BY DEF carried, bears, waits

\* A published item is in the inbox or lost; nothing else leaves it.
LEMMA PublishCarries ==
  ASSUME IInv, NEW kind \in Kinds, NEW y \in Items, Publish(kind, y), NEW x
  PROVE  /\ lost \subseteq lost'
         /\ bears(inbox, x) => bears(inbox', x)
         /\ x = y /\ Matters(kind) => x \in lost' \/ bears(inbox', x)
<1> DEFINE e == [kind |-> kind, of |-> y]
<1>1. e \in Events /\ e.kind = kind /\ e.of = y /\ inbox \in Seq(Events)
  BY DEF Events, IInv, TypeOK
<1>2. \/ inbox' = Append(inbox, e) /\ lost' = lost
      \/ inbox' = inbox /\ lost' = IF Matters(kind) THEN lost \cup {y} ELSE lost
  BY DEF Publish
<1> HIDE DEF e
<1>3. bears(Append(inbox, e), x) <=> bears(inbox, x) \/ (e.of = x /\ Matters(e.kind))
  BY <1>1, BearsLonger
<1> QED
  BY <1>1, <1>2, <1>3

\* So with a task.
LEMMA EnqueueCarries ==
  ASSUME IInv, NEW t \in Tasks, enqueue(t), NEW x
  PROVE  /\ lost \subseteq lost'
         /\ bears(outbox, x) => bears(outbox', x)
         /\ x = t.of /\ Matters(t.kind) => x \in lost' \/ bears(outbox', x)
<1>1. outbox \in Seq(Tasks)
  BY DEF IInv, TypeOK
<1>2. \/ outbox' = Append(outbox, t) /\ lost' = lost
      \/ outbox' = outbox /\ lost' = IF Matters(t.kind) THEN lost \cup {t.of} ELSE lost
  BY DEF enqueue
<1> QED
  BY <1>1, <1>2, BearsLonger

\* A failed task waits, or is lost.
LEMMA PutBackCarries ==
  ASSUME IInv, outbox # <<>>, PutBack(Head(outbox)), NEW x
  PROVE  /\ lost \subseteq lost'
         /\ bears(outbox, x) => bears(outbox', x) \/ waits(x)' \/ x \in lost'
         /\ waits(x) => waits(x)'
<1> DEFINE t == Head(outbox)
           u == [t EXCEPT !.retries = @ - 1]
<1>1. outbox \in Seq(Tasks) /\ t \in Tasks
  BY DEF IInv, TypeOK
<1>2. /\ outbox' = Tail(outbox)
      /\ \/ backoff' = backoff \cup {u} /\ lost' = lost
         \/ backoff' = backoff /\ lost' = IF Matters(t.kind) THEN lost \cup {t.of} ELSE lost
  BY DEF PutBack
<1>3. bears(outbox, x) => bears(outbox', x) \/ (t.of = x /\ Matters(t.kind))
  BY <1>1, <1>2, BearsShorter
<1> HIDE DEF t
<1>4. u.of = t.of /\ u.kind = t.kind
  BY <1>1 DEF Tasks
<1> HIDE DEF u
<1> QED
  BY <1>2, <1>3, <1>4 DEF waits

\* Who was told stays told, and a task that reaches all its chats settles
\* what it tells of.
LEMMA EveryoneStays ==
  ASSUME NEW count \in [Chats -> Nat], NEW more \in [Chats -> Nat],
         \A c \in Chats : count[c] <= more[c], everyone(count)
  PROVE  everyone(more)
<1>1. PICK c \in Configs : usable(c) /\ \A i \in DOMAIN c.chats : count[c.chats[i]] > 0
  BY DEF everyone
<1>2. c.chats \in Seq(Chats)
  BY ConfigsAssumption
<1>3. \A i \in DOMAIN c.chats : more[c.chats[i]] > 0
  <2> TAKE i \in DOMAIN c.chats
  <2>1. c.chats[i] \in Chats
    BY <1>2
  <2> QED
    BY <1>1, <2>1
<1> QED
  BY <1>1, <1>3 DEF everyone

LEMMA EveryoneReached ==
  ASSUME NEW count \in [Chats -> Nat], NEW t \in Tasks, deliverable(t)
  PROVE  everyone(reached(count, upTo(t.to, Len(t.to))))
<1>1. PICK c \in Configs : usable(c) /\ t.to = c.chats
  BY DEF deliverable
<1>2. t.to \in Seq(Chats)
  BY DEF Tasks
<1>3. \A i \in DOMAIN t.to : t.to[i] \in Chats /\ t.to[i] \in upTo(t.to, Len(t.to))
  BY <1>2 DEF upTo
<1>4. \A i \in DOMAIN t.to : reached(count, upTo(t.to, Len(t.to)))[t.to[i]] > 0
  <2> TAKE i \in DOMAIN t.to
  <2>1. t.to[i] \in Chats /\ count[t.to[i]] \in Nat
    BY <1>3
  <2>2. reached(count, upTo(t.to, Len(t.to)))[t.to[i]] = count[t.to[i]] + 1
    BY <1>3, <2>1 DEF reached
  <2> QED
    BY <2>1, <2>2
<1> QED
  BY <1>1, <1>4 DEF everyone

LEMMA ReachedMore ==
  ASSUME NEW count \in [Chats -> Nat], NEW chats
  PROVE  /\ reached(count, chats) \in [Chats -> Nat]
         /\ \A c \in Chats : count[c] <= reached(count, chats)[c]
BY DEF reached

\* What a step must leave of an end or an alert.
Kept(x) ==
  /\ lost \subseteq lost'
  /\ carried(x) => \/ carried(x)' \/ x \in lost'
                   \/ x \in Jobs /\ everyone(ends'[x])
                   \/ x \in Alerts /\ everyone(told'[x])

\* Publishing adds to what is on its way...
LEMMA EngineCarries ==
  ASSUME IInv, NEW kind \in Kinds, NEW y \in Items, Publish(kind, y),
         UNCHANGED <<outbox, backoff>>, NEW x
  PROVE  /\ Kept(x)
         /\ x = y /\ Matters(kind) => x \in lost' \/ carried(x)'
<1>1. /\ lost \subseteq lost'
      /\ bears(inbox, x) => bears(inbox', x)
      /\ x = y /\ Matters(kind) => x \in lost' \/ bears(inbox', x)
  BY PublishCarries
<1>2. /\ carried(x) <=> bears(inbox, x) \/ bears(outbox, x) \/ waits(x)
      /\ carried(x)' <=> bears(inbox', x) \/ bears(outbox', x) \/ waits(x)'
      /\ waits(x)' <=> waits(x)
  BY CarriedForm DEF carried, bears, waits
<1> QED
  BY <1>1, <1>2 DEF Kept

\* ...the dispatcher makes a task of it, or has no notifier and drops it...
LEMMA HandleCarries ==
  ASSUME IInv, Handle, NEW x
  PROVE  Kept(x)
<1> DEFINE e == Head(inbox)
<1>1. /\ inbox \in Seq(Events) /\ inbox # <<>> /\ inbox' = Tail(inbox)
      /\ UNCHANGED backoff
  BY DEF Handle, IInv, TypeOK
<1>2. bears(inbox, x) => bears(inbox', x) \/ (e.of = x /\ Matters(e.kind))
  BY <1>1, BearsShorter
<1>3. e \in Events
  BY <1>1
<1>4. e.kind \in Kinds /\ e.of \in Items
  BY <1>3 DEF Events
<1>5. \/ /\ UNCHANGED outbox
         /\ lost' = IF Matters(e.kind) THEN lost \cup {e.of} ELSE lost
      \/ ~Matters(e.kind) /\ UNCHANGED <<outbox, lost>>
      \/ notifier # None /\ \E ref \in BOOLEAN : enqueue(task(e.kind, e.of, ref))
  BY DEF Handle, takeState, Matters
<1> HIDE DEF e
<1>6. /\ lost \subseteq lost'
      /\ bears(outbox, x) => bears(outbox', x)
      /\ e.of = x /\ Matters(e.kind) => x \in lost' \/ bears(outbox', x)
  <2>1. ASSUME NEW ref \in BOOLEAN, notifier # None, enqueue(task(e.kind, e.of, ref))
        PROVE  <1>6!:
    <3>1. LET t == task(e.kind, e.of, ref) IN t \in Tasks /\ t.kind = e.kind /\ t.of = e.of
      BY <1>4, <2>1, TaskForm
    <3> QED
      BY <2>1, <3>1, EnqueueCarries
  <2> QED
    BY <1>5, <2>1
<1>7. /\ carried(x) <=> bears(inbox, x) \/ bears(outbox, x) \/ waits(x)
      /\ carried(x)' <=> bears(inbox', x) \/ bears(outbox', x) \/ waits(x)'
      /\ waits(x)' <=> waits(x)
  BY <1>1, CarriedForm DEF carried, bears, waits
<1> QED
  BY <1>2, <1>6, <1>7 DEF Kept

\* ...a task that waited is put back or dropped...
LEMMA WakeCarries ==
  ASSUME IInv, Wake, NEW x
  PROVE  Kept(x)
<1>1. PICK t \in backoff : backoff' = backoff \ {t} /\ enqueue(t) /\ UNCHANGED inbox
  BY DEF Wake
<1>2. t \in Tasks
  BY DEF IInv, TypeOK
<1>3. /\ lost \subseteq lost'
      /\ bears(outbox, x) => bears(outbox', x)
      /\ x = t.of /\ Matters(t.kind) => x \in lost' \/ bears(outbox', x)
  BY <1>1, <1>2, EnqueueCarries
<1>4. waits(x) => waits(x)' \/ (x = t.of /\ Matters(t.kind))
  BY <1>1 DEF waits
<1>5. /\ carried(x) <=> bears(inbox, x) \/ bears(outbox, x) \/ waits(x)
      /\ carried(x)' <=> bears(inbox', x) \/ bears(outbox', x) \/ waits(x)'
      /\ bears(inbox', x) <=> bears(inbox, x)
  BY <1>1, CarriedForm DEF carried, bears, waits
<1> QED
  BY <1>3, <1>4, <1>5 DEF Kept

\* ...and the worker delivers it, puts it back or drops it.
LEMMA SendCarries ==
  ASSUME IInv, TasksInv, SendStart \/ SendProgress \/ SendEnd \/ SendAlert, NEW x
  PROVE  Kept(x)
<1> DEFINE t == Head(outbox)
           Ran == outbox' = Tail(outbox) /\ UNCHANGED <<backoff, lost>>
<1>1. idle /\ UNCHANGED inbox
  BY DEF SendStart, SendProgress, SendEnd, SendAlert
<1>2. /\ t \in Tasks /\ outbox # <<>>
      /\ t.kind # "alert" => t.of \in Jobs
      /\ t.kind = "alert" => t.of \in Alerts
  BY <1>1, HeadForm
<1>3. outbox \in Seq(Tasks) /\ t = outbox[1] /\ 1 \in DOMAIN outbox
  BY <1>2, Shifted DEF IInv, TypeOK
<1>4. deliverable(t)
  BY <1>3 DEF TasksInv
<1>5. bears(outbox, x) => bears(Tail(outbox), x) \/ (t.of = x /\ Matters(t.kind))
  BY <1>2, <1>3, BearsShorter
<1>6. PutBack(t) => /\ lost \subseteq lost'
                    /\ bears(outbox, x) => bears(outbox', x) \/ waits(x)' \/ x \in lost'
                    /\ waits(x) => waits(x)'
  BY <1>2, PutBackCarries
<1>7. PutBack(t) \/ (Ran /\ (Matters(t.kind) => \/ t.of \in Jobs /\ everyone(ends'[t.of])
                                                \/ t.of \in Alerts /\ everyone(told'[t.of])))
  <2>1. CASE SendStart \/ SendProgress
    BY <2>1 DEF SendStart, SendProgress, Matters
  <2>2. CASE SendEnd
    <3>1. t.of \in Jobs /\ ends[t.of] \in [Chats -> Nat] /\ ends \in [Jobs -> [Chats -> Nat]]
      BY <1>2, <2>2 DEF SendEnd, IInv, TypeOK
    <3>2. \/ PutBack(t)
          \/ Ran /\ ends' = [ends EXCEPT ![t.of] = reached(@, upTo(t.to, Len(t.to)))]
      BY <2>2 DEF SendEnd
    <3> HIDE DEF t, Ran
    <3>3. everyone(reached(ends[t.of], upTo(t.to, Len(t.to))))
      BY <1>2, <1>4, <3>1, EveryoneReached
    <3> QED
      BY <3>1, <3>2, <3>3
  <2>3. CASE SendAlert
    <3>1. t.of \in Alerts /\ told[t.of] \in [Chats -> Nat] /\ told \in [Alerts -> [Chats -> Nat]]
      BY <1>2, <2>3 DEF SendAlert, IInv, TypeOK
    <3>2. \/ PutBack(t)
          \/ Ran /\ told' = [told EXCEPT ![t.of] = reached(@, upTo(t.to, Len(t.to)))]
      BY <2>3 DEF SendAlert
    <3> HIDE DEF t, Ran
    <3>3. everyone(reached(told[t.of], upTo(t.to, Len(t.to))))
      BY <1>2, <1>4, <3>1, EveryoneReached
    <3> QED
      BY <3>1, <3>2, <3>3
  <2> QED
    BY <2>1, <2>2, <2>3
<1>8. /\ carried(x) <=> bears(inbox, x) \/ bears(outbox, x) \/ waits(x)
      /\ carried(x)' <=> bears(inbox', x) \/ bears(outbox', x) \/ waits(x)'
      /\ bears(inbox', x) <=> bears(inbox, x)
  BY <1>1, CarriedForm DEF carried, bears, waits
<1>9. Ran => (waits(x)' <=> waits(x))
  BY DEF waits
<1> HIDE DEF t
<1>10. CASE PutBack(t)
  BY <1>6, <1>8, <1>10 DEF Kept
<1>11. CASE Ran /\ (Matters(t.kind) => \/ t.of \in Jobs /\ everyone(ends'[t.of])
                                       \/ t.of \in Alerts /\ everyone(told'[t.of]))
  BY <1>5, <1>8, <1>9, <1>11 DEF Kept
<1> QED
  BY <1>7, <1>10, <1>11

\* No chat is told less than before.
LEMMA CountsGrow ==
  ASSUME IInv, [Next]_vars
  PROVE  /\ \A j \in Jobs, c \in Chats : ends[j][c] <= ends'[j][c]
         /\ \A a \in Alerts, c \in Chats : told[a][c] <= told'[a][c]
<1>1. /\ ends \in [Jobs -> [Chats -> Nat]] /\ told \in [Alerts -> [Chats -> Nat]]
  BY DEF IInv, TypeOK
<1>2. CASE UNCHANGED <<ends, told>>
  BY <1>1, <1>2
<1>3. CASE SendEnd
  <2>1. Head(outbox).of \in Jobs
    BY <1>3, HeadForm DEF SendEnd
  <2>2. /\ UNCHANGED told
        /\ \E some : ends' = [ends EXCEPT ![Head(outbox).of] = reached(@, some)]
    BY <1>3 DEF SendEnd
  <2> QED
    BY <1>1, <2>1, <2>2, ReachedMore
<1>4. CASE SendAlert
  <2>1. Head(outbox).of \in Alerts
    BY <1>4, HeadForm DEF SendAlert
  <2>2. /\ UNCHANGED ends
        /\ \E some : told' = [told EXCEPT ![Head(outbox).of] = reached(@, some)]
    BY <1>4 DEF SendAlert
  <2> QED
    BY <1>1, <2>1, <2>2, ReachedMore
<1>5. [Next]_vars => UNCHANGED <<ends, told>> \/ SendEnd \/ SendAlert
  BY DEF Next, JobStarts, JobProgresses, JobEnds, Raise, Handle, ChangeSettings, superviseTelegram,
         SendStart, RecordStart, SendProgress, Wake, vars, chatVars
<1> QED
  BY <1>2, <1>3, <1>4, <1>5

\* What an item is about once it is published.
LEMMA Published ==
  ASSUME IInv, TasksInv, [Next]_vars, NEW x \in Items
  PROVE  /\ Kept(x)
         /\ x \in Jobs /\ phase[x] # "over" /\ phase'[x] = "over" => x \in lost' \/ carried(x)'
         /\ x \in raised' \ raised => x \in lost' \/ carried(x)'
<1> DEFINE Goal == /\ Kept(x)
                   /\ x \in Jobs /\ phase[x] # "over" /\ phase'[x] = "over" => x \in lost' \/ carried(x)'
                   /\ x \in raised' \ raised => x \in lost' \/ carried(x)'
<1>1. ASSUME NEW j \in Jobs, JobStarts(j) PROVE Goal
  <2>1. Publish("started", j) /\ UNCHANGED <<outbox, backoff, raised>>
        /\ phase' = [phase EXCEPT ![j] = "copying"]
    BY <1>1 DEF JobStarts
  <2>2. Kept(x)
    BY <2>1, EngineCarries DEF Kinds, Items
  <2> QED
    BY <2>1, <2>2 DEF IInv, TypeOK
<1>2. ASSUME NEW j \in Jobs, JobProgresses(j) PROVE Goal
  <2>1. Publish("progress", j) /\ UNCHANGED <<outbox, backoff, raised, phase>>
    BY <1>2 DEF JobProgresses
  <2>2. Kept(x)
    BY <2>1, EngineCarries DEF Kinds, Items
  <2> QED
    BY <2>1, <2>2
<1>3. ASSUME NEW j \in Jobs, JobEnds(j) PROVE Goal
  <2>1. PICK kind \in {"completed", "failed"} : Publish(kind, j)
    BY <1>3 DEF JobEnds
  <2>2. UNCHANGED <<outbox, backoff, raised>> /\ phase' = [phase EXCEPT ![j] = "over"]
    BY <1>3 DEF JobEnds
  <2>3. Kept(x) /\ (x = j => x \in lost' \/ carried(x)')
    BY <2>1, <2>2, EngineCarries DEF Kinds, Items, Matters
  <2> QED
    BY <2>2, <2>3 DEF IInv, TypeOK
<1>4. ASSUME NEW a \in Alerts, Raise(a) PROVE Goal
  <2>1. Publish("alert", a) /\ UNCHANGED <<outbox, backoff, phase>> /\ raised' = raised \cup {a}
    BY <1>4 DEF Raise
  <2>2. Kept(x) /\ (x = a => x \in lost' \/ carried(x)')
    BY <2>1, EngineCarries DEF Kinds, Items, Matters
  <2> QED
    BY <2>1, <2>2
<1>5. CASE UNCHANGED <<inbox, outbox, backoff, lost, phase, raised>>
  BY <1>5 DEF Kept, carried
<1>6. CASE Handle
  BY <1>6, HandleCarries DEF Handle, engineVars
<1>7. CASE SendStart \/ SendProgress \/ SendEnd \/ SendAlert
  BY <1>7, SendCarries DEF SendStart, SendProgress, SendEnd, SendAlert, engineVars
<1>8. CASE Wake
  BY <1>8, WakeCarries DEF Wake, engineVars
<1>9. ChangeSettings \/ superviseTelegram \/ RecordStart \/ UNCHANGED vars =>
        UNCHANGED <<inbox, outbox, backoff, lost, phase, raised>>
  BY DEF ChangeSettings, superviseTelegram, RecordStart, vars, engineVars
<1> QED
  <2>1. CASE Next
    BY <1>1, <1>2, <1>3, <1>4, <1>5, <1>6, <1>7, <1>8, <1>9, <2>1 DEF Next
  <2>2. CASE UNCHANGED vars
    BY <1>5, <1>9, <2>2
  <2> QED
    BY <2>1, <2>2

\* A task enqueued or taken leaves deliverable tasks.
LEMMA TasksLonger ==
  ASSUME IInv, TasksInv, NEW t \in Tasks, deliverable(t), enqueue(t)
  PROVE  \A i \in DOMAIN outbox' : deliverable(outbox'[i])
<1>1. outbox \in Seq(Tasks) /\ outbox' \in {outbox, Append(outbox, t)}
  BY DEF IInv, TypeOK, enqueue
<1>2. \A i \in DOMAIN outbox' : outbox'[i] = t \/ (i \in DOMAIN outbox /\ outbox'[i] = outbox[i])
  BY <1>1, Put
<1> QED
  BY <1>2 DEF TasksInv

\* Tasks go on being deliverable, and progress edits are not tried again.
LEMMA TasksStep ==
  ASSUME IInv, TasksInv, [Next]_vars
  PROVE  TasksInv'
<1> USE DEF deliverable
<1>1. CASE UNCHANGED <<notifier, outbox, backoff>>
  BY <1>1 DEF TasksInv
<1>2. CASE superviseTelegram
  <2>1. (notifier' # None => usable(notifier')) /\ UNCHANGED <<outbox, backoff>>
    BY <1>2 DEF superviseTelegram
  <2> QED
    BY <2>1 DEF TasksInv
<1>3. CASE Handle
  <2> DEFINE e == Head(inbox)
  <2>1. /\ UNCHANGED <<notifier, backoff>>
        /\ \/ UNCHANGED outbox
           \/ notifier # None /\ \E ref \in BOOLEAN : enqueue(task(e.kind, e.of, ref))
    BY <1>3 DEF Handle, configVars, takeState
  <2>2. e.kind \in Kinds /\ e.of \in Items
    <3>1. inbox \in Seq(Events) /\ inbox # <<>>
      BY <1>3 DEF Handle, IInv, TypeOK
    <3>2. e \in Events
      BY <3>1
    <3> QED
      BY <3>2 DEF Events
  <2> HIDE DEF e
  <2>3. ASSUME NEW ref \in BOOLEAN, notifier # None, enqueue(task(e.kind, e.of, ref))
        PROVE  \A i \in DOMAIN outbox' : deliverable(outbox'[i])
    <3>1. task(e.kind, e.of, ref) \in Tasks
      BY <2>2, <2>3, TaskForm
    <3>2. deliverable(task(e.kind, e.of, ref))
      BY <2>3 DEF task, TasksInv, IInv, TypeOK
    <3> QED
      BY <2>3, <3>1, <3>2, TasksLonger
  <2> QED
    BY <2>1, <2>3 DEF TasksInv
<1>4. CASE Wake
  <2>1. PICK t \in backoff : backoff' = backoff \ {t} /\ enqueue(t) /\ UNCHANGED notifier
    BY <1>4 DEF Wake, configVars
  <2>2. t \in Tasks /\ deliverable(t)
    BY DEF IInv, TypeOK, TasksInv
  <2>3. \A i \in DOMAIN outbox' : deliverable(outbox'[i])
    BY <2>1, <2>2, TasksLonger
  <2> QED
    BY <2>1, <2>3 DEF TasksInv
<1>5. CASE SendStart \/ SendProgress \/ SendEnd \/ SendAlert
  <2> DEFINE t == Head(outbox)
             u == [t EXCEPT !.retries = @ - 1]
  <2>1. /\ idle /\ outbox' = Tail(outbox) /\ UNCHANGED notifier
        /\ backoff' = backoff \/ (t.kind # "progress" /\ backoff' = backoff \cup {u})
    BY <1>5 DEF SendStart, SendProgress, SendEnd, SendAlert, PutBack, configVars
  <2>2. outbox \in Seq(Tasks) /\ outbox # <<>>
    BY <2>1 DEF idle, IInv, TypeOK
  <2>3. /\ t \in Tasks /\ t = outbox[1] /\ 1 \in DOMAIN outbox
        /\ \A i \in DOMAIN outbox' : i + 1 \in DOMAIN outbox /\ outbox'[i] = outbox[i + 1]
    BY <2>1, <2>2, Shifted
  <2>4. u.to = t.to /\ u.kind = t.kind
    BY <2>3 DEF Tasks
  <2> HIDE DEF t, u
  <2> QED
    BY <2>1, <2>3, <2>4 DEF TasksInv
<1>6. (\E j \in Jobs : JobStarts(j) \/ JobProgresses(j) \/ JobEnds(j)) \/ (\E a \in Alerts : Raise(a))
        \/ ChangeSettings \/ RecordStart \/ UNCHANGED vars =>
      UNCHANGED <<notifier, outbox, backoff>>
  BY DEF JobStarts, JobProgresses, JobEnds, Raise, ChangeSettings, RecordStart, vars, configVars
<1> QED
  BY <1>1, <1>2, <1>3, <1>4, <1>5, <1>6 DEF Next

\* What is settled stays so.
LEMMA SettledStep ==
  ASSUME IInv, IInv', TasksInv, SettledInv, [Next]_vars
  PROVE  SettledInv'
<1>1. ASSUME NEW j \in Jobs, phase'[j] = "over" PROVE Settled(j, ends[j])'
  <2>1. j \in Items /\ j \notin Alerts /\ ends[j] \in [Chats -> Nat] /\ ends'[j] \in [Chats -> Nat]
    BY NamesAssumption DEF IInv, TypeOK, Items
  <2>2. /\ Kept(j)
        /\ phase[j] # "over" => j \in lost' \/ carried(j)'
    BY <1>1, <2>1, Published
  <2>3. everyone(ends[j]) => everyone(ends'[j])
    BY <2>1, CountsGrow, EveryoneStays
  <2>4. everyone(ends[j])' <=> everyone(ends'[j])
    BY DEF everyone
  <2> QED
    BY <2>1, <2>2, <2>3, <2>4 DEF SettledInv, Settled, Kept
<1>2. ASSUME NEW a \in raised' PROVE Settled(a, told[a])'
  <2>1. a \in Items /\ a \in Alerts /\ a \notin Jobs
        /\ told[a] \in [Chats -> Nat] /\ told'[a] \in [Chats -> Nat]
    BY NamesAssumption DEF IInv, TypeOK, Items
  <2>2. /\ Kept(a)
        /\ a \notin raised => a \in lost' \/ carried(a)'
    BY <1>2, <2>1, Published
  <2>3. everyone(told[a]) => everyone(told'[a])
    BY <2>1, CountsGrow, EveryoneStays
  <2>4. everyone(told[a])' <=> everyone(told'[a])
    BY DEF everyone
  <2> QED
    BY <2>1, <2>2, <2>3, <2>4 DEF SettledInv, Settled, Kept
<1> QED
  BY <1>1, <1>2 DEF SettledInv

(***************************************************************************)
(* The end is the last word.                                               *)
(***************************************************************************)
\* A start is published of a new job, an end of one that is not over.
LEMMA PublishWord ==
  ASSUME IInv, NEW e \in Events, inbox' \in {inbox, Append(inbox, e)},
         UNCHANGED <<outbox, backoff, msgs, sending, shown>>,
         NEW j \in Jobs, WordInv(j),
         isStart(e, j) => phase[j] = "new" /\ phase'[j] = "copying",
         isEnd(e, j) => phase[j] # "over",
         phase'[j] = "new" => phase[j] = "new",
         phase[j] = "over" => phase'[j] = "over"
  PROVE  WordInv(j)'
<1>1. /\ \/ inbox' = inbox
         \/ /\ endsIn(inbox', j) = endsIn(inbox, j) \cup (IF isEnd(e, j) THEN {Len(inbox) + 1} ELSE {})
            /\ startsIn(inbox', j) =
                 startsIn(inbox, j) \cup (IF isStart(e, j) THEN {Len(inbox) + 1} ELSE {})
      /\ \A i \in startsIn(inbox, j) : i < Len(inbox) + 1
  <2>1. inbox \in Seq(Events)
    BY DEF IInv, TypeOK
  <2>2. /\ endsIn(Append(inbox, e), j) =
             endsIn(inbox, j) \cup (IF isEnd(e, j) THEN {Len(inbox) + 1} ELSE {})
        /\ startsIn(Append(inbox, e), j) =
             startsIn(inbox, j) \cup (IF isStart(e, j) THEN {Len(inbox) + 1} ELSE {})
        /\ \A i \in DOMAIN inbox : i < Len(inbox) + 1
    BY <2>1, Longer
  <2> QED
    BY <2>2 DEF startsIn
<1>2. /\ startsIn(outbox', j) = startsIn(outbox, j)
      /\ backoff' = backoff /\ sending' = sending /\ msgs' = msgs /\ shown' = shown
  BY DEF startsIn
<1>3. isStart(e, j) => NoStart(j) /\ endsIn(inbox, j) = {} /\ ~isEnd(e, j)
  BY DEF WordInv, OneStart, isStart, isEnd, IInv, JobInv, OneEnd
<1>4. OneStart(j)'
  BY <1>1, <1>2, <1>3 DEF WordInv, OneStart, NoStart
<1>5. StartFirst(j)'
  BY <1>1, <1>3 DEF WordInv, StartFirst, NoStart
<1>6. LastWord(j)'
  <2>1. Edited(j)' => Edited(j)
    BY DEF Edited
  <2>2. Edited(j)' => phase'[j] = "over" /\ msgs'[j] # TRUE /\ NoStart(j)'
    BY <1>1, <1>2, <2>1 DEF WordInv, LastWord, NoStart
  <2> QED
    BY <2>2 DEF WordInv, LastWord
<1> QED
  BY <1>4, <1>5, <1>6 DEF WordInv

\* What the dispatcher makes of an event about j.
Turns(t, j) ==
  /\ t.kind = Head(inbox).kind /\ t.of = Head(inbox).of
  /\ \/ UNCHANGED outbox
     \/ /\ outbox' = Append(outbox, t)
        /\ isEnd(t, j) => msgs'[j] = None /\ (t.ref => msgs[j] = TRUE)
        /\ isProgress(t, j) => msgs[j] = TRUE
  /\ msgs'[j] = msgs[j] \/ msgs'[j] \in {FALSE, None}

LEMMA HandleTurns ==
  ASSUME IInv, Handle, NEW j \in Jobs
  PROVE  \E t \in Tasks : Turns(t, j)
<1> DEFINE e == Head(inbox)
<1>1. e \in Events /\ e = inbox[1] /\ 1 \in DOMAIN inbox
  BY Shifted DEF Handle, IInv, TypeOK
<1>2. e.kind \in Kinds /\ e.of \in Items /\ fits(e)
  BY <1>1 DEF Events, IInv, KindsInv
<1>3. e.kind # "alert" => e.of \in Jobs
  BY <1>2 DEF fits, Items
<1>4. \/ UNCHANGED <<msgs, outbox>>
      \/ /\ notifier # None
         /\ \E ref \in BOOLEAN :
              /\ enqueue(task(e.kind, e.of, ref))
              /\ isProgress(e, j) => msgs[j] = TRUE
              /\ isEnd(e, j) => (ref => msgs[j] = TRUE)
         /\ \/ e.kind \in {"progress", "alert"} /\ UNCHANGED msgs
            \/ e.kind = "started" /\ msgs' = [msgs EXCEPT ![e.of] = FALSE]
            \/ e.kind \in {"completed", "failed"} /\ msgs' = [msgs EXCEPT ![e.of] = None]
  BY DEF Handle, takeState, isProgress, isEnd
<1> HIDE DEF e
<1>5. CASE UNCHANGED <<msgs, outbox>>
  <2> DEFINE t == [kind |-> e.kind, of |-> e.of, to |-> <<>>, ref |-> FALSE, retries |-> 0]
  <2>1. t \in Tasks /\ t.kind = e.kind /\ t.of = e.of
    BY <1>2, BoundsAssumption DEF Tasks
  <2> HIDE DEF t
  <2> QED
    BY <1>5, <2>1 DEF Turns, e
<1>6. ASSUME NEW ref \in BOOLEAN, notifier # None,
             enqueue(task(e.kind, e.of, ref)),
             isProgress(e, j) => msgs[j] = TRUE,
             isEnd(e, j) => (ref => msgs[j] = TRUE),
             \/ e.kind \in {"progress", "alert"} /\ UNCHANGED msgs
             \/ e.kind = "started" /\ msgs' = [msgs EXCEPT ![e.of] = FALSE]
             \/ e.kind \in {"completed", "failed"} /\ msgs' = [msgs EXCEPT ![e.of] = None]
      PROVE  \E t \in Tasks : Turns(t, j)
  <2> DEFINE t == task(e.kind, e.of, ref)
  <2>1. t \in Tasks /\ t.kind = e.kind /\ t.of = e.of
    BY <1>2, <1>6, TaskForm
  <2>2. t.ref = ref
    BY DEF task
  <2> HIDE DEF t
  <2>3. outbox' \in {outbox, Append(outbox, t)}
    BY <1>6 DEF enqueue, t
  <2>4. /\ msgs'[j] = msgs[j] \/ msgs'[j] \in {FALSE, None}
        /\ isEnd(e, j) => msgs'[j] = None
    BY <1>3, <1>6 DEF IInv, TypeOK, isEnd
  <2>5. (isEnd(t, j) <=> isEnd(e, j)) /\ (isProgress(t, j) <=> isProgress(e, j))
    BY <2>1 DEF isEnd, isProgress
  <2> QED
    BY <1>6, <2>1, <2>2, <2>3, <2>4, <2>5 DEF Turns, e
<1> QED
  BY <1>4, <1>5, <1>6

LEMMA HandleWord ==
  ASSUME IInv, Handle, NEW j \in Jobs, WordInv(j)
  PROVE  WordInv(j)'
<1> DEFINE e == Head(inbox)
<1>1. PICK t \in Tasks : Turns(t, j)
  BY HandleTurns
<1>2. /\ inbox \in Seq(Events) /\ inbox # <<>> /\ inbox' = Tail(inbox) /\ outbox \in Seq(Tasks)
      /\ phase' = phase /\ backoff' = backoff /\ sending' = sending /\ shown' = shown
  BY DEF Handle, IInv, TypeOK, engineVars, chatVars
<1>3. /\ e = inbox[1] /\ 1 \in DOMAIN inbox
      /\ endsIn(inbox', j) \in SUBSET Nat /\ startsIn(inbox', j) \in SUBSET Nat
      /\ \A i \in endsIn(inbox', j) : i + 1 \in endsIn(inbox, j) /\ i + 1 > 1
      /\ \A i \in startsIn(inbox', j) : i + 1 \in startsIn(inbox, j) /\ i + 1 > 1
  BY <1>2, Shorter
<1>4. /\ isEnd(e, j) <=> isEnd(t, j)
      /\ isStart(e, j) <=> isStart(t, j)
      /\ isEnd(e, j) => 1 \in endsIn(inbox, j)
      /\ isStart(e, j) => 1 \in startsIn(inbox, j)
      /\ ~(isEnd(t, j) /\ isStart(t, j))
      /\ ~(isProgress(t, j) /\ isStart(t, j)) /\ ~(isProgress(t, j) /\ isEnd(t, j))
  BY <1>1, <1>3 DEF Turns, isEnd, isStart, isProgress, endsIn, startsIn
<1> HIDE DEF e
<1>5. /\ \/ outbox' = outbox
         \/ /\ startsIn(outbox', j) =
                 startsIn(outbox, j) \cup (IF isStart(t, j) THEN {Len(outbox) + 1} ELSE {})
            /\ DOMAIN outbox' = DOMAIN outbox \cup {Len(outbox) + 1}
            /\ outbox'[Len(outbox) + 1] = t
            /\ \A i \in DOMAIN outbox : outbox'[i] = outbox[i] /\ i < Len(outbox) + 1
            /\ isEnd(t, j) => msgs'[j] = None /\ (t.ref => msgs[j] = TRUE)
            /\ isProgress(t, j) => msgs[j] = TRUE
      /\ msgs'[j] = msgs[j] \/ msgs'[j] \in {FALSE, None}
  <2>1. /\ startsIn(Append(outbox, t), j) =
             startsIn(outbox, j) \cup (IF isStart(t, j) THEN {Len(outbox) + 1} ELSE {})
        /\ DOMAIN Append(outbox, t) = DOMAIN outbox \cup {Len(outbox) + 1}
        /\ Append(outbox, t)[Len(outbox) + 1] = t
        /\ \A i \in DOMAIN outbox : Append(outbox, t)[i] = outbox[i] /\ i < Len(outbox) + 1
    BY <1>2, StartsLonger
  <2> QED
    BY <1>1, <2>1 DEF Turns
<1>6. msgs'[j] = TRUE => msgs[j] = TRUE
  BY <1>5, NamesAssumption
<1>7. isStart(t, j) => /\ startsIn(inbox', j) = {} /\ startsIn(outbox, j) = {}
                       /\ phase[j] # "new" /\ msgs[j] # TRUE /\ sending # j
                       /\ \A x \in backoff : ~isStart(x, j)
  <2>1. ASSUME isStart(t, j), NEW i \in startsIn(inbox', j) PROVE FALSE
    BY <1>3, <1>4, <2>1 DEF WordInv, OneStart
  <2> QED
    BY <1>4, <2>1 DEF WordInv, OneStart, NoStart
<1>8. OneStart(j)'
  <2>1. \A i, k \in startsIn(inbox', j) : i = k
    <3> TAKE i, k \in startsIn(inbox', j)
    <3>1. i + 1 = k + 1 /\ i \in Nat /\ k \in Nat
      BY <1>3 DEF WordInv, OneStart
    <3> QED
      BY <3>1
  <2>2. startsIn(inbox', j) # {} => startsIn(inbox, j) # {} /\ ~isStart(t, j)
    BY <1>3, <1>7
  <2>3. \A i, k \in startsIn(outbox', j) : i = k
    BY <1>5, <1>7 DEF WordInv, OneStart
  <2>4. startsIn(outbox', j) # {} => startsIn(outbox, j) # {} \/ isStart(t, j)
    BY <1>5
  <2>5. phase'[j] = "new" \/ msgs'[j] = TRUE => NoStart(j)'
    BY <1>2, <1>3, <1>6, <1>7, <2>4 DEF WordInv, OneStart, NoStart
  <2> QED
    BY <1>2, <1>6, <1>7, <2>1, <2>2, <2>3, <2>4, <2>5 DEF WordInv, OneStart
<1>9. StartFirst(j)'
  <2> SUFFICES ASSUME NEW i \in startsIn(inbox', j), NEW k \in endsIn(inbox', j) PROVE i < k
    BY DEF StartFirst
  <2>1. i + 1 < k + 1 /\ i \in Nat /\ k \in Nat
    BY <1>3 DEF WordInv, StartFirst
  <2> QED
    BY <2>1
<1>10. LastWord(j)'
  <2>1. isEdit(t, j) /\ outbox' # outbox =>
          /\ phase[j] = "over" /\ msgs'[j] # TRUE
          /\ startsIn(inbox', j) = {} /\ startsIn(outbox, j) = {} /\ sending # j
          /\ \A x \in backoff : ~isStart(x, j)
          /\ shown[j] # "end" /\ \A x \in backoff : ~isEdit(x, j)
          /\ \A k \in DOMAIN outbox : ~isEdit(outbox[k], j)
    <3> SUFFICES ASSUME isEdit(t, j), outbox' # outbox PROVE <2>1!2
      OBVIOUS
    <3>1. isEnd(t, j) /\ msgs[j] = TRUE /\ msgs'[j] = None
      BY <1>5 DEF isEdit
    <3>2. phase[j] = "over"
      BY <1>4, <3>1 DEF IInv, TypeOK, JobInv, OneEnd
    <3>3. NoStart(j) /\ ~Edited(j)
      BY <3>1 DEF WordInv, OneStart, LastWord
    <3>4. startsIn(inbox', j) = {}
      BY <1>3, <3>3 DEF NoStart
    <3> QED
      BY <3>1, <3>2, <3>3, <3>4, NamesAssumption DEF NoStart, Edited
  <2>2. CASE outbox' = outbox
    <3>1. Edited(j)' => Edited(j)
      BY <1>2, <2>2 DEF Edited
    <3>2. NoStart(j) => NoStart(j)'
      BY <1>2, <1>3, <2>2 DEF NoStart
    <3> QED
      BY <1>2, <1>6, <2>2, <3>1, <3>2 DEF WordInv, LastWord
  <2>3. CASE outbox' # outbox
    <3>1. CASE isEdit(t, j)
      <4>1. NoStart(j)'
        BY <1>2, <1>4, <1>5, <2>1, <2>3, <3>1 DEF NoStart, isEdit
      <4>2. ASSUME NEW i \in DOMAIN outbox', isProgress(outbox'[i], j)
            PROVE  /\ shown'[j] # "end" /\ \A x \in backoff' : ~isEdit(x, j)
                   /\ \A k \in DOMAIN outbox' : isEdit(outbox'[k], j) => i < k
        BY <1>2, <1>4, <1>5, <2>1, <2>3, <3>1, <4>2 DEF isEdit
      <4> QED
        BY <1>2, <2>1, <2>3, <3>1, <4>1, <4>2 DEF LastWord
    <3>2. CASE ~isEdit(t, j)
      <4>1. Edited(j)' => Edited(j)
        BY <1>2, <1>5, <2>3, <3>2 DEF Edited
      <4>2. Edited(j) => NoStart(j)'
        BY <1>2, <1>3, <1>4, <1>5, <2>3 DEF WordInv, LastWord, NoStart
      <4>3. isProgress(t, j) => ~Edited(j)
        BY <1>5, <2>3 DEF WordInv, LastWord
      <4>4. ASSUME NEW i \in DOMAIN outbox', isProgress(outbox'[i], j)
            PROVE  /\ shown'[j] # "end" /\ \A x \in backoff' : ~isEdit(x, j)
                   /\ \A k \in DOMAIN outbox' : isEdit(outbox'[k], j) => i < k
        BY <1>2, <1>5, <2>3, <3>2, <4>3, <4>4 DEF WordInv, LastWord, Edited
      <4> QED
        BY <1>2, <1>6, <4>1, <4>2, <4>4 DEF WordInv, LastWord
    <3> QED
      BY <3>1, <3>2
  <2> QED
    BY <2>2, <2>3
<1> QED
  BY <1>8, <1>9, <1>10 DEF WordInv

\* A task put back goes to the end of the outbox.
LEMMA WakeWord ==
  ASSUME IInv, TasksInv, Wake, NEW j \in Jobs, WordInv(j)
  PROVE  WordInv(j)'
<1>1. PICK t \in backoff :
        /\ backoff' = backoff \ {t} /\ enqueue(t)
        /\ phase' = phase /\ inbox' = inbox /\ msgs' = msgs /\ sending' = sending /\ shown' = shown
  BY DEF Wake, engineVars, chatVars
<1>2. t \in Tasks /\ outbox \in Seq(Tasks) /\ t.kind # "progress"
  BY DEF IInv, TypeOK, TasksInv
<1>3. \/ outbox' = outbox
      \/ /\ startsIn(outbox', j) =
              startsIn(outbox, j) \cup (IF isStart(t, j) THEN {Len(outbox) + 1} ELSE {})
         /\ DOMAIN outbox' = DOMAIN outbox \cup {Len(outbox) + 1}
         /\ outbox'[Len(outbox) + 1] = t
         /\ \A i \in DOMAIN outbox : outbox'[i] = outbox[i] /\ i < Len(outbox) + 1
  <2>1. outbox' = outbox \/ outbox' = Append(outbox, t)
    BY <1>1 DEF enqueue
  <2>2. /\ startsIn(Append(outbox, t), j) =
             startsIn(outbox, j) \cup (IF isStart(t, j) THEN {Len(outbox) + 1} ELSE {})
        /\ DOMAIN Append(outbox, t) = DOMAIN outbox \cup {Len(outbox) + 1}
        /\ Append(outbox, t)[Len(outbox) + 1] = t
        /\ \A i \in DOMAIN outbox : Append(outbox, t)[i] = outbox[i] /\ i < Len(outbox) + 1
    BY <1>2, StartsLonger
  <2> QED
    BY <2>1, <2>2
<1>4. isStart(t, j) => /\ startsIn(inbox, j) = {} /\ startsIn(outbox, j) = {} /\ sending # j
                       /\ phase[j] # "new" /\ msgs[j] # TRUE
                       /\ \A x \in backoff' : ~isStart(x, j)
  BY <1>1 DEF WordInv, OneStart, NoStart
<1>5. OneStart(j)'
  <2>1. startsIn(outbox', j) # {} => startsIn(outbox, j) # {} \/ isStart(t, j)
    BY <1>3
  <2>2. NoStart(j) => NoStart(j)'
    BY <1>1, <2>1 DEF NoStart
  <2>3. \A i, k \in startsIn(outbox', j) : i = k
    BY <1>3, <1>4 DEF WordInv, OneStart
  <2> QED
    BY <1>1, <1>4, <2>1, <2>2, <2>3 DEF WordInv, OneStart
<1>6. StartFirst(j)'
  BY <1>1 DEF WordInv, StartFirst
<1>7. LastWord(j)'
  <2>1. Edited(j)' => Edited(j)
    BY <1>1, <1>3 DEF Edited
  <2>2. Edited(j) => phase'[j] = "over" /\ msgs'[j] # TRUE /\ NoStart(j)'
    BY <1>1, <1>3 DEF WordInv, LastWord, NoStart
  <2>3. ASSUME NEW i \in DOMAIN outbox', isProgress(outbox'[i], j)
        PROVE  /\ shown'[j] # "end" /\ \A x \in backoff' : ~isEdit(x, j)
               /\ \A k \in DOMAIN outbox' : isEdit(outbox'[k], j) => i < k
    <3>1. i \in DOMAIN outbox /\ isProgress(outbox[i], j)
      BY <1>2, <1>3, <2>3 DEF isProgress
    <3>2. shown[j] # "end" /\ \A x \in backoff : ~isEdit(x, j)
      BY <3>1 DEF WordInv, LastWord
    <3>3. \A k \in DOMAIN outbox : isEdit(outbox[k], j) => i < k
      BY <3>1 DEF WordInv, LastWord
    <3> QED
      BY <1>1, <1>3, <3>1, <3>2, <3>3
  <2> QED
    BY <2>1, <2>2, <2>3 DEF LastWord
<1> QED
  BY <1>5, <1>6, <1>7 DEF WordInv

\* A reference is recorded of a message that is out.
LEMMA RecordWord ==
  ASSUME IInv, RecordStart, NEW j \in Jobs, WordInv(j)
  PROVE  WordInv(j)'
<1>1. /\ phase' = phase /\ inbox' = inbox /\ outbox' = outbox /\ backoff' = backoff
      /\ shown' = shown /\ sending # None /\ sending' = None
      /\ msgs' = IF msgs[sending] # None THEN [msgs EXCEPT ![sending] = TRUE] ELSE msgs
  BY DEF RecordStart, engineVars, chatVars
<1>2. NoStart(j)' <=> /\ startsIn(inbox, j) = {} /\ startsIn(outbox, j) = {}
                      /\ \A t \in backoff : ~isStart(t, j)
  BY <1>1, NamesAssumption DEF NoStart
<1>3. CASE sending = j
  <2>1. NoStart(j)' /\ phase[j] # "new" /\ ~Edited(j)
    BY <1>1, <1>2, <1>3 DEF WordInv, OneStart, LastWord, NoStart
  <2>2. OneStart(j)'
    BY <1>1, <1>2, <1>3, <2>1, NamesAssumption DEF WordInv, OneStart, NoStart
  <2>3. StartFirst(j)' /\ LastWord(j)'
    BY <1>1, <2>1 DEF WordInv, StartFirst, LastWord, Edited
  <2> QED
    BY <2>2, <2>3 DEF WordInv
<1>4. CASE sending # j
  <2>1. msgs'[j] = msgs[j]
    BY <1>1, <1>4 DEF IInv, TypeOK
  <2>2. NoStart(j)' <=> NoStart(j)
    BY <1>2, <1>4 DEF NoStart
  <2>3. OneStart(j)'
    BY <1>1, <1>4, <2>1, <2>2, NamesAssumption DEF WordInv, OneStart
  <2>4. StartFirst(j)' /\ LastWord(j)'
    BY <1>1, <2>1, <2>2 DEF WordInv, StartFirst, LastWord, Edited
  <2> QED
    BY <2>3, <2>4 DEF WordInv
<1> QED
  BY <1>3, <1>4

\* What the worker does to the messages of j: the first task leaves the
\* outbox and may wait, and what it says is shown or not.
Runs(u, j) ==
  LET t == Head(outbox) IN
  /\ u.kind = t.kind /\ u.of = t.of /\ u.ref = t.ref
  /\ \/ /\ backoff' = backoff
        /\ sending' = sending \/ (isStart(t, j) /\ sending' = j) \/ (t.of # j /\ sending' # j)
        /\ \/ shown'[j] = shown[j]
           \/ isStart(t, j) /\ shown'[j] = "start"
           \/ isProgress(t, j) /\ shown'[j] = "progress"
           \/ isEdit(t, j) /\ shown'[j] = "end"
     \/ /\ backoff' = backoff \cup {u} /\ ~isProgress(t, j)
        /\ sending' = sending
        /\ shown'[j] = shown[j] \/ (isEdit(t, j) /\ shown'[j] = "end")

LEMMA SendRuns ==
  ASSUME IInv, SendStart \/ SendProgress \/ SendEnd \/ SendAlert, NEW j \in Jobs
  PROVE  /\ outbox # <<>> /\ outbox' = Tail(outbox) /\ sending # j
         /\ \E u \in Tasks : Runs(u, j)
<1> DEFINE t == Head(outbox)
           w == [t EXCEPT !.retries = @ - 1]
<1>1. idle
  BY DEF SendStart, SendProgress, SendEnd, SendAlert
<1>2. /\ t \in Tasks /\ t.of \in Items /\ outbox # <<>>
      /\ t.kind # "alert" => t.of \in Jobs
      /\ t.kind = "alert" => t.of \in Alerts
  BY <1>1, HeadForm
<1>3. sending # j /\ outbox' = Tail(outbox)
  BY <1>1, NamesAssumption DEF idle, SendStart, SendProgress, SendEnd, SendAlert, PutBack
<1>4. t.retries > 0 => w \in Tasks /\ w.kind = t.kind /\ w.of = t.of /\ w.ref = t.ref
  BY <1>2, BoundsAssumption DEF Tasks
<1>5. PutBack(t) => backoff' = backoff \/ (t.retries > 0 /\ backoff' = backoff \cup {w})
  BY DEF PutBack
<1>6. shown \in [Jobs -> Stages]
  BY DEF IInv, TypeOK
<1> HIDE DEF w
<1>7. CASE SendStart
  <2>1. t.kind = "started" /\ t.of \in Jobs
    BY <1>2, <1>7 DEF SendStart
  <2>2. \/ shown' = [shown EXCEPT ![t.of] = "start"] /\ sending' = t.of /\ backoff' = backoff
        \/ PutBack(t) /\ shown' = shown /\ sending' = sending
    BY <1>7 DEF SendStart
  <2> HIDE DEF t
  <2>3. CASE shown' = [shown EXCEPT ![t.of] = "start"] /\ sending' = t.of /\ backoff' = backoff
    <3>1. Runs(t, j)
      BY <1>6, <2>1, <2>3 DEF Runs, isStart, t
    <3> QED
      BY <1>2, <1>3, <3>1
  <2>4. CASE PutBack(t) /\ shown' = shown /\ sending' = sending
    <3>1. Runs(t, j) \/ (t.retries > 0 /\ Runs(w, j))
      BY <1>4, <1>5, <2>1, <2>4 DEF Runs, isProgress, t
    <3> QED
      BY <1>2, <1>3, <1>4, <3>1
  <2> QED
    BY <2>2, <2>3, <2>4
<1>8. CASE SendProgress
  <2>1. t.kind = "progress" /\ sending' = sending /\ backoff' = backoff
        /\ shown' \in {shown, [shown EXCEPT ![t.of] = "progress"]}
    BY <1>8 DEF SendProgress
  <2> HIDE DEF t
  <2>2. Runs(t, j)
    BY <1>6, <2>1 DEF Runs, isProgress, t
  <2> QED
    BY <1>2, <1>3, <2>2
<1>9. CASE SendEnd
  <2>1. /\ t.kind \in {"completed", "failed"} /\ sending' = sending
        /\ shown' = shown \/ (t.ref /\ shown' = [shown EXCEPT ![t.of] = "end"])
        /\ backoff' = backoff \/ PutBack(t)
    BY <1>9 DEF SendEnd
  <2> HIDE DEF t
  <2>2. shown'[j] = shown[j] \/ (isEdit(t, j) /\ shown'[j] = "end")
    BY <1>6, <2>1 DEF isEdit, isEnd
  <2>3. Runs(t, j) \/ (t.retries > 0 /\ Runs(w, j))
    BY <1>4, <1>5, <2>1, <2>2 DEF Runs, isProgress, t
  <2> QED
    BY <1>2, <1>3, <1>4, <2>3
<1>10. CASE SendAlert
  <2>1. /\ t.kind = "alert" /\ sending' = sending /\ shown' = shown
        /\ backoff' = backoff \/ PutBack(t)
    BY <1>10 DEF SendAlert
  <2> HIDE DEF t
  <2>2. Runs(t, j) \/ (t.retries > 0 /\ Runs(w, j))
    BY <1>4, <1>5, <2>1 DEF Runs, isProgress, t
  <2> QED
    BY <1>2, <1>3, <1>4, <2>2
<1> QED
  BY <1>7, <1>8, <1>9, <1>10

LEMMA SendWord ==
  ASSUME IInv, SendStart \/ SendProgress \/ SendEnd \/ SendAlert, NEW j \in Jobs, WordInv(j)
  PROVE  WordInv(j)'
<1> DEFINE t == Head(outbox)
<1>1. PICK u \in Tasks : Runs(u, j)
  BY SendRuns
<1>2. /\ phase' = phase /\ inbox' = inbox /\ msgs' = msgs
      /\ outbox' = Tail(outbox) /\ outbox # <<>> /\ outbox \in Seq(Tasks) /\ sending # j
  BY SendRuns DEF SendStart, SendProgress, SendEnd, SendAlert, engineVars, IInv, TypeOK
<1>3. /\ t = outbox[1] /\ 1 \in DOMAIN outbox
      /\ startsIn(outbox', j) \in SUBSET Nat
      /\ \A i \in startsIn(outbox', j) : i + 1 \in startsIn(outbox, j) /\ i + 1 > 1
      /\ \A i \in DOMAIN outbox' : i \in Nat /\ i + 1 > 1 /\ i + 1 \in DOMAIN outbox
                                     /\ outbox'[i] = outbox[i + 1]
  BY <1>2, Shorter, Shifted
<1>4. /\ isStart(t, j) => 1 \in startsIn(outbox, j)
      /\ isStart(u, j) <=> isStart(t, j)
      /\ isEdit(u, j) <=> isEdit(t, j)
      /\ ~(isStart(t, j) /\ isEdit(t, j)) /\ ~(isProgress(t, j) /\ isEdit(t, j))
      /\ ~(isProgress(t, j) /\ isStart(t, j))
      /\ isStart(t, j) => t.of = j
  BY <1>1, <1>3 DEF Runs, startsIn, isStart, isEnd, isEdit, isProgress
<1>5. \/ /\ backoff' = backoff
         /\ sending' = sending \/ (isStart(t, j) /\ sending' = j) \/ (t.of # j /\ sending' # j)
         /\ \/ shown'[j] = shown[j]
            \/ isStart(t, j) /\ shown'[j] = "start"
            \/ isProgress(t, j) /\ shown'[j] = "progress"
            \/ isEdit(t, j) /\ shown'[j] = "end"
      \/ /\ backoff' = backoff \cup {u} /\ ~isProgress(t, j)
         /\ sending' = sending
         /\ shown'[j] = shown[j] \/ (isEdit(t, j) /\ shown'[j] = "end")
  BY <1>1 DEF Runs
<1> HIDE DEF t
<1>6. isStart(t, j) => /\ startsIn(outbox', j) = {} /\ startsIn(inbox, j) = {}
                       /\ phase[j] # "new" /\ msgs[j] # TRUE /\ ~Edited(j)
                       /\ \A x \in backoff : ~isStart(x, j)
  <2>1. ASSUME isStart(t, j), NEW i \in startsIn(outbox', j) PROVE FALSE
    BY <1>3, <1>4, <2>1 DEF WordInv, OneStart
  <2> QED
    BY <1>4, <2>1 DEF WordInv, OneStart, LastWord, NoStart
<1>7. ~isStart(t, j) => /\ sending' # j
                        /\ \A x \in backoff' : isStart(x, j) => x \in backoff
  BY <1>2, <1>4, <1>5
<1>8. NoStart(j) => NoStart(j)'
  BY <1>2, <1>3, <1>4, <1>7 DEF NoStart
<1>9. OneStart(j)'
  <2>1. \A i, k \in startsIn(outbox', j) : i = k
    <3> TAKE i, k \in startsIn(outbox', j)
    <3>1. i + 1 = k + 1 /\ i \in Nat /\ k \in Nat
      BY <1>3 DEF WordInv, OneStart
    <3> QED
      BY <3>1
  <2>2. startsIn(outbox', j) # {} => startsIn(outbox, j) # {} /\ ~isStart(t, j)
    BY <1>3, <1>6
  <2>3. CASE isStart(t, j)
    BY <1>2, <1>4, <1>5, <1>6, <2>1, <2>2, <2>3 DEF OneStart
  <2>4. CASE ~isStart(t, j)
    BY <1>2, <1>7, <1>8, <2>1, <2>2, <2>4 DEF WordInv, OneStart
  <2> QED
    BY <2>3, <2>4
<1>10. StartFirst(j)'
  BY <1>2 DEF WordInv, StartFirst
<1>11. LastWord(j)'
  <2>1. isEdit(t, j) => Edited(j) /\ \A i \in DOMAIN outbox' : ~isProgress(outbox'[i], j)
    <3>1. isEdit(t, j) => Edited(j)
      BY <1>3 DEF Edited
    <3>2. ASSUME isEdit(t, j), NEW i \in DOMAIN outbox', isProgress(outbox'[i], j) PROVE FALSE
      <4>1. i + 1 \in DOMAIN outbox /\ isProgress(outbox[i + 1], j) /\ i + 1 > 1 /\ i \in Nat
        BY <1>3, <3>2
      <4>2. i + 1 < 1
        BY <1>3, <3>2, <4>1 DEF WordInv, LastWord
      <4> QED
        BY <4>1, <4>2
    <3> QED
      BY <3>1, <3>2
  <2>2. Edited(j)' => Edited(j)
    <3>1. ASSUME NEW k \in DOMAIN outbox', isEdit(outbox'[k], j) PROVE Edited(j)
      BY <1>3, <3>1 DEF Edited
    <3>2. shown'[j] = "end" => shown[j] = "end" \/ isEdit(t, j)
      BY <1>5
    <3>3. \A x \in backoff' : isEdit(x, j) => x \in backoff \/ isEdit(t, j)
      BY <1>4, <1>5
    <3> QED
      BY <2>1, <3>1, <3>2, <3>3 DEF Edited
  <2>3. Edited(j)' => phase'[j] = "over" /\ msgs'[j] # TRUE /\ NoStart(j)'
    BY <1>2, <1>8, <2>2 DEF WordInv, LastWord
  <2>4. ASSUME NEW i \in DOMAIN outbox', isProgress(outbox'[i], j)
        PROVE  /\ shown'[j] # "end" /\ \A x \in backoff' : ~isEdit(x, j)
               /\ \A k \in DOMAIN outbox' : isEdit(outbox'[k], j) => i < k
    <3>1. i + 1 \in DOMAIN outbox /\ isProgress(outbox[i + 1], j) /\ i \in Nat
      BY <1>3, <2>4
    <3>2. /\ shown[j] # "end" /\ \A x \in backoff : ~isEdit(x, j)
          /\ \A k \in DOMAIN outbox : isEdit(outbox[k], j) => i + 1 < k
      BY <3>1 DEF WordInv, LastWord
    <3>3. ~isEdit(t, j)
      BY <2>1, <2>4
    <3>4. shown'[j] # "end" /\ \A x \in backoff' : ~isEdit(x, j)
      BY <1>4, <1>5, <3>2, <3>3
    <3>5. ASSUME NEW k \in DOMAIN outbox', isEdit(outbox'[k], j) PROVE i < k
      <4>1. i + 1 < k + 1 /\ k \in Nat
        BY <1>3, <3>2, <3>5
      <4> QED
        BY <3>1, <4>1
    <3> QED
      BY <3>4, <3>5
  <2> QED
    BY <2>3, <2>4 DEF LastWord
<1> QED
  BY <1>9, <1>10, <1>11 DEF WordInv

\* Every step keeps the messages of a job in order.
LEMMA WordStep ==
  ASSUME IInv, TasksInv, [Next]_vars, NEW j \in Jobs, WordInv(j)
  PROVE  WordInv(j)'
<1>1. ASSUME NEW i \in Jobs, JobStarts(i) PROVE WordInv(j)'
  <2> DEFINE e == [kind |-> "started", of |-> i]
  <2>1. /\ Publish("started", i) /\ phase[i] = "new" /\ phase' = [phase EXCEPT ![i] = "copying"]
        /\ UNCHANGED <<outbox, backoff, msgs, sending, shown>>
    BY <1>1 DEF JobStarts, chatVars
  <2>2. e \in Events /\ e.kind = "started" /\ e.of = i /\ inbox' \in {inbox, Append(inbox, e)}
    BY <2>1, PublishForm DEF Kinds, Items
  <2> HIDE DEF e
  <2>3. /\ isStart(e, j) => phase[j] = "new" /\ phase'[j] = "copying"
        /\ ~isEnd(e, j)
        /\ phase'[j] = "new" => phase[j] = "new"
        /\ phase[j] = "over" => phase'[j] = "over"
    BY <2>1, <2>2 DEF isStart, isEnd, IInv, TypeOK
  <2> QED
    BY <2>1, <2>2, <2>3, PublishWord
<1>2. ASSUME NEW i \in Jobs, JobProgresses(i) PROVE WordInv(j)'
  <2> DEFINE e == [kind |-> "progress", of |-> i]
  <2>1. Publish("progress", i) /\ UNCHANGED <<phase, outbox, backoff, msgs, sending, shown>>
    BY <1>2 DEF JobProgresses, chatVars
  <2>2. e \in Events /\ e.kind = "progress" /\ e.of = i /\ inbox' \in {inbox, Append(inbox, e)}
    BY <2>1, PublishForm DEF Kinds, Items
  <2> HIDE DEF e
  <2>3. ~isStart(e, j) /\ ~isEnd(e, j)
    BY <2>2 DEF isStart, isEnd
  <2> QED
    BY <2>1, <2>2, <2>3, PublishWord
<1>3. ASSUME NEW i \in Jobs, JobEnds(i) PROVE WordInv(j)'
  <2>1. PICK kind \in {"completed", "failed"} : Publish(kind, i) /\ phase[i] # "over"
    BY <1>3 DEF JobEnds
  <2> DEFINE e == [kind |-> kind, of |-> i]
  <2>2. phase' = [phase EXCEPT ![i] = "over"] /\ UNCHANGED <<outbox, backoff, msgs, sending, shown>>
    BY <1>3 DEF JobEnds, chatVars
  <2>3. e \in Events /\ e.kind = kind /\ e.of = i /\ inbox' \in {inbox, Append(inbox, e)}
    BY <2>1, PublishForm DEF Kinds, Items
  <2> HIDE DEF e
  <2>4. /\ ~isStart(e, j)
        /\ isEnd(e, j) => phase[j] # "over"
        /\ phase'[j] = "new" => phase[j] = "new"
        /\ phase[j] = "over" => phase'[j] = "over"
    BY <2>1, <2>2, <2>3 DEF isStart, isEnd, IInv, TypeOK
  <2> QED
    BY <2>2, <2>3, <2>4, PublishWord
<1>4. ASSUME NEW a \in Alerts, Raise(a) PROVE WordInv(j)'
  <2> DEFINE e == [kind |-> "alert", of |-> a]
  <2>1. Publish("alert", a) /\ UNCHANGED <<phase, outbox, backoff, msgs, sending, shown>>
    BY <1>4 DEF Raise, chatVars
  <2>2. e \in Events /\ e.kind = "alert" /\ inbox' \in {inbox, Append(inbox, e)}
    BY <2>1, PublishForm DEF Kinds, Items
  <2> HIDE DEF e
  <2>3. ~isStart(e, j) /\ ~isEnd(e, j)
    BY <2>2 DEF isStart, isEnd
  <2> QED
    BY <2>1, <2>2, <2>3, PublishWord
<1>5. CASE UNCHANGED <<phase, inbox, outbox, backoff, msgs, sending, shown>>
  BY <1>5 DEF WordInv, OneStart, StartFirst, LastWord, NoStart, Edited, startsIn, endsIn
<1>6. ChangeSettings \/ superviseTelegram \/ UNCHANGED vars =>
        UNCHANGED <<phase, inbox, outbox, backoff, msgs, sending, shown>>
  BY DEF ChangeSettings, superviseTelegram, vars, engineVars, chatVars
<1>7. CASE Next
  BY <1>1, <1>2, <1>3, <1>4, <1>5, <1>6, <1>7, HandleWord, WakeWord, RecordWord, SendWord DEF Next
<1>8. CASE UNCHANGED vars
  BY <1>5, <1>6, <1>8
<1> QED
  BY <1>7, <1>8

\* An entry of d.jobs outlives its job only while the end is to come, or
\* lost.
LEMMA EntryStep ==
  ASSUME IInv, TasksInv, [Next]_vars, NEW j \in Jobs, WordInv(j), EntryInv(j)
  PROVE  EntryInv(j)'
<1>1. lost \subseteq lost'
  BY Published DEF Kept, Items
<1>2. ASSUME NEW e \in Events, inbox' \in {inbox, Append(inbox, e)}, msgs' = msgs,
             phase'[j] = phase[j] \/ phase'[j] # "over", ~isStart(e, j) \/ phase'[j] # "over"
      PROVE  EntryInv(j)'
  <2>1. inbox \in Seq(Events)
    BY DEF IInv, TypeOK
  <2>2. \/ inbox' = inbox
        \/ /\ endsIn(inbox', j) = endsIn(inbox, j) \cup (IF isEnd(e, j) THEN {Len(inbox) + 1} ELSE {})
           /\ startsIn(inbox', j) =
                startsIn(inbox, j) \cup (IF isStart(e, j) THEN {Len(inbox) + 1} ELSE {})
    <3>1. /\ endsIn(Append(inbox, e), j) =
               endsIn(inbox, j) \cup (IF isEnd(e, j) THEN {Len(inbox) + 1} ELSE {})
          /\ startsIn(Append(inbox, e), j) =
               startsIn(inbox, j) \cup (IF isStart(e, j) THEN {Len(inbox) + 1} ELSE {})
      BY <2>1, Longer
    <3> QED
      BY <1>2, <3>1
  <2> QED
    BY <1>1, <1>2, <2>2 DEF EntryInv
<1>3. ASSUME NEW i \in Jobs, JobStarts(i) \/ JobProgresses(i) PROVE EntryInv(j)'
  <2>1. PICK kind \in {"started", "progress"} :
          /\ Publish(kind, i) /\ msgs' = msgs
          /\ \/ phase' = phase /\ kind = "progress"
             \/ phase' = [phase EXCEPT ![i] = "copying"]
    BY <1>3 DEF JobStarts, JobProgresses
  <2> DEFINE e == [kind |-> kind, of |-> i]
  <2>2. e \in Events /\ e.kind = kind /\ e.of = i /\ inbox' \in {inbox, Append(inbox, e)}
    BY <2>1, PublishForm DEF Kinds, Items
  <2> HIDE DEF e
  <2>3. /\ phase'[j] = phase[j] \/ phase'[j] # "over"
        /\ ~isStart(e, j) \/ phase'[j] # "over"
    BY <2>1, <2>2 DEF isStart, IInv, TypeOK
  <2> QED
    BY <1>2, <2>1, <2>2, <2>3
<1>4. ASSUME NEW i \in Jobs, JobEnds(i) PROVE EntryInv(j)'
  <2>1. PICK kind \in {"completed", "failed"} : Publish(kind, i)
    BY <1>4 DEF JobEnds
  <2> DEFINE e == [kind |-> kind, of |-> i]
  <2>2. /\ phase' = [phase EXCEPT ![i] = "over"] /\ msgs' = msgs
        /\ inbox' = Append(inbox, e) \/ (inbox' = inbox /\ i \in lost')
    BY <1>4, <2>1 DEF JobEnds, Publish, Matters
  <2>3. e \in Events /\ e.kind = kind /\ e.of = i
    BY <2>1, PublishForm DEF Kinds, Items
  <2>4. inbox \in Seq(Events) /\ phase \in [Jobs -> {"new", "copying", "over"}]
    BY DEF IInv, TypeOK
  <2> HIDE DEF e
  <2>5. CASE i = j
    <3>1. isEnd(e, j)
      BY <2>3, <2>5 DEF isEnd
    <3>2. inbox' = Append(inbox, e) => endsIn(inbox', j) # {}
      <4>1. endsIn(Append(inbox, e), j) =
              endsIn(inbox, j) \cup (IF isEnd(e, j) THEN {Len(inbox) + 1} ELSE {})
        BY <2>3, <2>4, Longer
      <4> QED
        BY <3>1, <4>1
    <3> QED
      BY <2>2, <2>5, <3>2 DEF EntryInv
  <2>6. CASE i # j
    <3>1. phase'[j] = phase[j] /\ ~isStart(e, j)
      BY <2>2, <2>3, <2>4, <2>6 DEF isStart
    <3> QED
      BY <1>2, <2>2, <2>3, <3>1
  <2> QED
    BY <2>5, <2>6
<1>5. ASSUME NEW a \in Alerts, Raise(a) PROVE EntryInv(j)'
  <2> DEFINE e == [kind |-> "alert", of |-> a]
  <2>1. Publish("alert", a) /\ UNCHANGED <<phase, msgs>>
    BY <1>5 DEF Raise
  <2>2. e \in Events /\ e.kind = "alert" /\ inbox' \in {inbox, Append(inbox, e)}
    BY <2>1, PublishForm DEF Kinds, Items
  <2> HIDE DEF e
  <2>3. ~isStart(e, j)
    BY <2>2 DEF isStart
  <2> QED
    BY <1>2, <2>1, <2>2, <2>3
<1>6. CASE Handle
  <2> DEFINE e == Head(inbox)
  <2>1. inbox \in Seq(Events) /\ inbox # <<>> /\ inbox' = Tail(inbox) /\ phase' = phase
    BY <1>6 DEF Handle, IInv, TypeOK, engineVars
  <2>2. /\ e = inbox[1] /\ 1 \in DOMAIN inbox
        /\ startsIn(inbox', j) \in SUBSET Nat
        /\ \A i \in startsIn(inbox', j) : i + 1 \in startsIn(inbox, j) /\ i + 1 > 1
        /\ \A i \in endsIn(inbox, j) : i = 1 \/ i - 1 \in endsIn(inbox', j)
    BY <2>1, Shorter
  <2>3. /\ isEnd(e, j) => 1 \in endsIn(inbox, j)
        /\ isStart(e, j) => 1 \in startsIn(inbox, j)
        /\ 1 \in endsIn(inbox, j) => isEnd(e, j)
        /\ ~(isEnd(e, j) /\ isStart(e, j))
    BY <2>2 DEF endsIn, startsIn, isEnd, isStart
  <2>4. startsIn(inbox', j) # {} => startsIn(inbox, j) # {}
    BY <2>2
  <2>5. CASE isEnd(e, j)
    <3>1. startsIn(inbox', j) = {}
      <4>1. ASSUME NEW i \in startsIn(inbox', j) PROVE FALSE
        <5>1. i + 1 > 1 /\ i \in Nat /\ i + 1 \in startsIn(inbox, j)
          BY <2>2
        <5>2. i + 1 < 1
          BY <2>3, <2>5, <5>1 DEF WordInv, StartFirst
        <5> QED
          BY <5>1, <5>2
      <4> QED
        BY <4>1
    <3>2. j \in lost' \/ msgs'[j] = None
      BY <1>6, <2>5 DEF Handle, isEnd, Matters, IInv, TypeOK
    <3> QED
      BY <3>1, <3>2 DEF EntryInv
  <2>6. CASE ~isEnd(e, j)
    <3>1. endsIn(inbox, j) # {} => endsIn(inbox', j) # {}
      BY <2>2, <2>3, <2>6
    <3>2. msgs'[j] = msgs[j] \/ isStart(e, j)
      <4>1. e \in Events /\ fits(e)
        BY <2>1, <2>2 DEF IInv, KindsInv
      <4>2. UNCHANGED msgs \/ \E v : msgs' = [msgs EXCEPT ![e.of] = v] /\ e.kind \in {"started", "completed", "failed"}
        BY <1>6 DEF Handle
      <4> QED
        BY <2>6, <4>1, <4>2 DEF isStart, isEnd, IInv, TypeOK
    <3>3. (msgs'[j] # None \/ startsIn(inbox', j) # {}) => msgs[j] # None \/ startsIn(inbox, j) # {}
      BY <2>3, <2>4, <3>2
    <3> QED
      BY <1>1, <2>1, <3>1, <3>3 DEF EntryInv
  <2> QED
    BY <2>5, <2>6
<1>7. CASE UNCHANGED <<phase, inbox>> /\ (msgs'[j] # None => msgs[j] # None)
  BY <1>1, <1>7 DEF EntryInv, startsIn, endsIn
<1>8. ChangeSettings \/ superviseTelegram \/ SendStart \/ RecordStart \/ SendProgress \/ SendEnd
        \/ SendAlert \/ Wake \/ UNCHANGED vars =>
      UNCHANGED <<phase, inbox>> /\ (msgs'[j] # None => msgs[j] # None)
  BY DEF ChangeSettings, superviseTelegram, SendStart, RecordStart, SendProgress, SendEnd,
         SendAlert, Wake, vars, engineVars, IInv, TypeOK
<1>9. CASE Next
  BY <1>3, <1>4, <1>5, <1>6, <1>7, <1>8, <1>9 DEF Next
<1>10. CASE UNCHANGED vars
  BY <1>7, <1>8, <1>10
<1> QED
  BY <1>9, <1>10

(***************************************************************************)
(* The theorems of the second layer.                                       *)
(***************************************************************************)
\* Where the messages of every job can be.
THEOREM MessagesPlaced == Spec => []WInv
<1>1. Init => WInv
  <2> SUFFICES ASSUME Init PROVE WInv
    OBVIOUS
  <2>1. TasksInv /\ SettledInv
    BY DEF Init, TasksInv, SettledInv
  <2>2. ASSUME NEW j \in Jobs PROVE WordInv(j) /\ EntryInv(j)
    <3>1. startsIn(inbox, j) = {} /\ startsIn(outbox, j) = {} /\ endsIn(inbox, j) = {}
      BY DEF Init, startsIn, endsIn
    <3>2. NoStart(j) /\ ~Edited(j) /\ outbox = <<>> /\ phase[j] = "new"
      BY <3>1, NamesAssumption DEF Init, NoStart, Edited
    <3>3. msgs[j] # TRUE
      BY NamesAssumption DEF Init
    <3>4. backoff = {} /\ DOMAIN outbox = {}
      BY DEF Init
    <3>5. OneStart(j)
      BY <3>1, <3>2, <3>3, <3>4 DEF OneStart
    <3>6. StartFirst(j) /\ LastWord(j)
      BY <3>1, <3>2, <3>4 DEF StartFirst, LastWord
    <3> QED
      BY <3>2, <3>5, <3>6 DEF WordInv, EntryInv
  <2> QED
    BY <2>1, <2>2 DEF WInv
<1>2. IInv /\ WInv /\ [Next]_vars => WInv'
  BY StepKeeps, TasksStep, SettledStep, WordStep, EntryStep DEF WInv
<1> QED
  BY <1>1, <1>2, Inductive, PTL DEF Spec

\* However the buffers fill, the attempts fail and the settings change: a
\* finished job and an alert are lost, on their way, or at every chat of a
\* configuration, and d.jobs keeps no entry of a finished job but for one
\* whose end is to come or lost.
THEOREM NothingForgotten == Spec => []NoEndForgotten
<1>1. IInv /\ WInv => NoEndForgotten
  <2> SUFFICES ASSUME IInv, WInv PROVE NoEndForgotten
    OBVIOUS
  <2>1. /\ \A j \in Jobs : phase[j] = "over" => j \in lost \/ carried(j) \/ everyone(ends[j])
        /\ \A a \in raised : a \in lost \/ carried(a) \/ everyone(told[a])
    BY DEF WInv, SettledInv, Settled
  <2>2. ASSUME NEW j \in Jobs, msgs[j] # None, phase[j] = "over"
        PROVE  j \in lost \/ \E i \in DOMAIN inbox : inbox[i].of = j
    <3>1. j \in lost \/ endsIn(inbox, j) # {}
      BY <2>2 DEF WInv, EntryInv
    <3> QED
      BY <3>1 DEF endsIn, isEnd
  <2> QED
    BY <2>1, <2>2 DEF NoEndForgotten
<1> QED
  BY <1>1, Inductive, MessagesPlaced, PTL

\* Once the start message of a job says that it is over, no later step makes
\* it say anything else, whatever was queued or waits to be tried again.
THEOREM EndStaysLast == Spec => EndIsLastWord
<1>1. IInv /\ WInv /\ [Next]_vars =>
        [\A j \in Jobs : shown[j] = "end" => shown'[j] = "end"]_vars
  <2> SUFFICES ASSUME IInv, WInv, [Next]_vars, NEW j \in Jobs, shown[j] = "end"
               PROVE  shown'[j] = "end"
    OBVIOUS
  <2>1. CASE SendStart \/ SendProgress \/ SendEnd \/ SendAlert
    <3>1. PICK u \in Tasks : Runs(u, j)
      BY <2>1, SendRuns
    <3>2. Head(outbox) = outbox[1] /\ 1 \in DOMAIN outbox
      BY <2>1, SendRuns, Shifted DEF IInv, TypeOK
    <3>3. startsIn(outbox, j) = {} /\ \A i \in DOMAIN outbox : ~isProgress(outbox[i], j)
      BY DEF WInv, WordInv, LastWord, Edited, NoStart
    <3>4. ~isStart(Head(outbox), j) /\ ~isProgress(Head(outbox), j)
      BY <3>2, <3>3 DEF startsIn
    <3> QED
      BY <3>1, <3>4 DEF Runs
  <2>2. [Next]_vars => UNCHANGED shown \/ SendStart \/ SendProgress \/ SendEnd \/ SendAlert
    BY DEF Next, JobStarts, JobProgresses, JobEnds, Raise, Handle, ChangeSettings,
           superviseTelegram, RecordStart, Wake, vars, chatVars
  <2> QED
    BY <2>1, <2>2
<1> QED
  BY <1>1, Inductive, MessagesPlaced, PTL DEF Spec, EndIsLastWord
=============================================================================
