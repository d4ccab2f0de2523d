--------------------------- MODULE SaveImages_proofs ---------------------------
(***************************************************************************)
(* What the second copy of the pictures promises, for every queue, every   *)
(* spool and every number of restarts and unmounts: no picture of a frame  *)
(* saved without an error vanishes, the counters of the spool are true,    *)
(* and what ends up below the mount point is bounded.                      *)
(***************************************************************************)
EXTENDS SaveImages, FiniteSetTheorems, TLAPS

USE ArchiveAssumption

-----------------------------------------------------------------------------
(* Sequences of pictures *)

\* No picture twice.
Distinct(s) == \A i, j \in DOMAIN s : s[i] = s[j] => i = j

LEMMA HeadAndTail ==
    ASSUME NEW S, NEW s \in Seq(S), s # <<>>
    PROVE  /\ Head(s) \in S /\ Tail(s) \in Seq(S)
           /\ ToSet(s) = {Head(s)} \cup ToSet(Tail(s))
           /\ Distinct(s) => Distinct(Tail(s)) /\ Head(s) \notin ToSet(Tail(s))
<1>1. /\ Head(s) \in S /\ Head(s) = s[1] /\ Tail(s) \in Seq(S)
      /\ DOMAIN Tail(s) = 1 .. (Len(s) - 1)
      /\ \A i \in 1 .. (Len(s) - 1) : Tail(s)[i] = s[i + 1]
      /\ DOMAIN s = 1 .. Len(s) /\ Len(s) \in Nat \ {0}
  OBVIOUS
<1>2. ToSet(s) = {Head(s)} \cup ToSet(Tail(s))
  <2>1. ASSUME NEW i \in DOMAIN s PROVE s[i] \in {Head(s)} \cup ToSet(Tail(s))
    <3>1. CASE i = 1 BY <3>1, <1>1
    <3>2. CASE i # 1
      <4>1. i - 1 \in DOMAIN Tail(s) /\ Tail(s)[i - 1] = s[i] BY <3>2, <1>1
      <4> QED BY <4>1 DEF ToSet
    <3> QED BY <3>1, <3>2
  <2>2. ASSUME NEW i \in DOMAIN Tail(s) PROVE Tail(s)[i] \in ToSet(s)
    <3>1. i + 1 \in DOMAIN s /\ s[i + 1] = Tail(s)[i] BY <1>1
    <3> QED BY <3>1 DEF ToSet
  <2>3. Head(s) \in ToSet(s) BY <1>1 DEF ToSet
  <2> QED BY <2>1, <2>2, <2>3 DEF ToSet
<1>3. ASSUME Distinct(s) PROVE Distinct(Tail(s)) /\ Head(s) \notin ToSet(Tail(s))
  <2>1. \A i \in DOMAIN Tail(s) : i + 1 \in DOMAIN s /\ Tail(s)[i] = s[i + 1] /\ i + 1 # 1
    BY <1>1
  <2>2. Distinct(Tail(s))
    <3> SUFFICES ASSUME NEW i \in DOMAIN Tail(s), NEW j \in DOMAIN Tail(s),
                        Tail(s)[i] = Tail(s)[j]
                 PROVE  i = j
      BY DEF Distinct
    <3>1. i + 1 = j + 1 BY <1>3, <2>1 DEF Distinct
    <3> QED BY <3>1, <1>1
  <2>3. Head(s) \notin ToSet(Tail(s))
    BY <1>1, <1>3, <2>1 DEF Distinct, ToSet
  <2> QED BY <2>2, <2>3
<1> QED BY <1>1, <1>2, <1>3

LEMMA AppendOne ==
    ASSUME NEW S, NEW s \in Seq(S), NEW e \in S
    PROVE  /\ Append(s, e) \in Seq(S) /\ Len(Append(s, e)) = Len(s) + 1
           /\ ToSet(Append(s, e)) = ToSet(s) \cup {e}
           /\ Distinct(s) /\ e \notin ToSet(s) => Distinct(Append(s, e))
<1>1. /\ Append(s, e) \in Seq(S) /\ Len(Append(s, e)) = Len(s) + 1
      /\ DOMAIN Append(s, e) = 1 .. (Len(s) + 1)
      /\ \A i \in 1 .. Len(s) : Append(s, e)[i] = s[i]
      /\ Append(s, e)[Len(s) + 1] = e
      /\ DOMAIN s = 1 .. Len(s) /\ Len(s) \in Nat
  OBVIOUS
<1>2. \A i \in 1 .. (Len(s) + 1) : i \in 1 .. Len(s) \/ i = Len(s) + 1
  BY <1>1
<1>3. ToSet(Append(s, e)) = ToSet(s) \cup {e}
  <2>1. \A i \in DOMAIN Append(s, e) : Append(s, e)[i] \in ToSet(s) \cup {e}
    BY <1>1, <1>2 DEF ToSet
  <2>2. \A i \in DOMAIN s : s[i] \in ToSet(Append(s, e))
    <3> TAKE i \in DOMAIN s
    <3>1. i \in DOMAIN Append(s, e) /\ Append(s, e)[i] = s[i] BY <1>1
    <3> QED BY <3>1 DEF ToSet
  <2>3. e \in ToSet(Append(s, e))
    <3>1. Len(s) + 1 \in DOMAIN Append(s, e) BY <1>1
    <3> QED BY <3>1, <1>1 DEF ToSet
  <2> QED BY <2>1, <2>2, <2>3 DEF ToSet
<1>4. ASSUME Distinct(s), e \notin ToSet(s) PROVE Distinct(Append(s, e))
  <2>1. \A i \in 1 .. Len(s) : s[i] # e
    BY <1>1, <1>4 DEF ToSet
  <2> QED BY <1>1, <1>2, <1>4, <2>1 DEF Distinct
<1> QED BY <1>1, <1>3, <1>4

LEMMA EmptySequence == ToSet(<<>>) = {} /\ Distinct(<<>>)
  BY DEF ToSet, Distinct

-----------------------------------------------------------------------------
(* The background thread *)

Holding == {"check", "write", "spool"}
Moving == {"moveCheck", "moveWrite", "unlink"}
InMove == [step : Moving \cup {"count"}, pic : Pictures, rest : SUBSET Pictures]

LEMMA ThreadShape ==
    ASSUME thread \in Threads
    PROVE  /\ thread.step \in {"idle", "count"} \cup Holding \cup Moving
           /\ thread.step = "idle" => thread = NoTask
           /\ thread.step \in Holding => thread \in [step : Holding, pic : Pictures]
           /\ thread.step \in Moving \cup {"count"} => thread \in InMove
  BY DEF Threads, NoTask, Holding, Moving, InMove

LEMMA HoldingStep ==
    ASSUME thread \in [step : Holding, pic : Pictures], NEW s \in Holding
    PROVE  /\ [thread EXCEPT !.step = s] \in Threads
           /\ [thread EXCEPT !.step = s].step = s
           /\ [thread EXCEPT !.step = s].pic = thread.pic
  BY DEF Threads, Holding

LEMMA MovingStep ==
    ASSUME thread \in InMove, NEW s \in Moving \cup {"count"}
    PROVE  /\ [thread EXCEPT !.step = s] \in Threads
           /\ [thread EXCEPT !.step = s].step = s
           /\ [thread EXCEPT !.step = s].pic = thread.pic
           /\ [thread EXCEPT !.step = s].rest = thread.rest
  BY DEF Threads, Moving, InMove

\* The next file of a retry is one of those listed.
LEMMA MoveOne ==
    ASSUME NEW rest \in SUBSET Pictures, NEW t \in Move(rest)
    PROVE  /\ t \in Threads
           /\ t = NoTask \/ /\ t.step = "moveCheck"
                            /\ t.pic \in rest /\ t.rest = rest \ {t.pic}
           /\ t.step \in {"idle", "moveCheck"}
  BY DEF Move, Threads, NoTask

LEMMA NoTaskIsIdle == NoTask \in Threads /\ NoTask.step = "idle"
  BY DEF NoTask, Threads

-----------------------------------------------------------------------------
(* Types *)

LEMMA ToSpoolType ==
    ASSUME NEW p \in Pictures, ArchiveTypeOK, ToSpool(p)
    PROVE  bytes' \in Nat /\ pending' \in Nat /\ spool' \in SUBSET Pictures
             /\ dropped' \in SUBSET Pictures
  BY DEF ToSpool, ArchiveTypeOK

LEMMA PutType ==
    ASSUME NEW p \in Pictures, ArchiveTypeOK, Put(p)
    PROVE  nas' \in SUBSET Pictures /\ misplaced' \in SUBSET Pictures
  BY DEF Put, ArchiveTypeOK

LEMMA TypeInitially == Init => TypeOK
<1> SUFFICES ASSUME Init PROVE TypeOK
  OBVIOUS
<1>1. <<>> \in Seq(Pictures) /\ Len(<<>>) = 0
  OBVIOUS
<1> QED BY <1>1, NoTaskIsIdle DEF Init, ArchiveInit, TypeOK, ArchiveTypeOK, Ends

\* What a save hands over is a sequence of names of its frame.
LEMMA SaveAnswers ==
    ASSUME NEW ng \in BOOLEAN, NEW review \in BOOLEAN, NEW training \in BOOLEAN,
           NEW answer \in SaveOutcomes(ng, review, training)
    PROVE  /\ answer.end \in Ends \ {"none"}
           /\ answer.archived \in {<<>>, <<"raw">>, <<"raw", "result">>,
                                   <<"raw", "result", "review">>}
           /\ answer.end \in {"saved", "copied"} =>
                 answer.archived = AllKeys(answer.end = "copied")
<1>1. ASSUME NEW keep, NEW raw \in BOOLEAN, NEW result \in BOOLEAN,
             answer = RemoteSave(keep, raw, result, review)
      PROVE  answer \in {Answer(TRUE, <<"raw">>, review), Answer(TRUE, AllKeys(review), review),
                         Answer(FALSE, AllKeys(review), review)}
  BY <1>1 DEF RemoteSave
<1>2. ASSUME NEW raw \in BOOLEAN, NEW result \in BOOLEAN,
             answer = LocalSave(raw, result, review)
      PROVE  answer \in {Answer(TRUE, <<>>, review), Answer(FALSE, AllKeys(review), review)}
  BY <1>2 DEF LocalSave
<1>3. answer \in {Answer(TRUE, <<>>, review), Answer(TRUE, <<"raw">>, review),
                  Answer(TRUE, AllKeys(review), review), Answer(FALSE, AllKeys(review), review)}
  <2> DEFINE remote == {RemoteSave(KeepsRaw(policy, ng, review, training), raw, result, review) :
                           policy \in Policies, raw \in BOOLEAN, result \in BOOLEAN}
             locals == {LocalSave(raw, result, review) : raw \in BOOLEAN, result \in BOOLEAN}
         four == {Answer(TRUE, <<>>, review), Answer(TRUE, <<"raw">>, review),
                  Answer(TRUE, AllKeys(review), review), Answer(FALSE, AllKeys(review), review)}
  <2>1. answer \in remote \/ answer \in locals
    BY DEF SaveOutcomes
  <2>2. ASSUME answer \in remote PROVE answer \in four
    <3>1. PICK policy \in Policies, raw \in BOOLEAN, result \in BOOLEAN :
             answer = RemoteSave(KeepsRaw(policy, ng, review, training), raw, result, review)
      BY <2>2
    <3> QED BY <3>1, <1>1
  <2>3. ASSUME answer \in locals PROVE answer \in four
    <3>1. PICK raw \in BOOLEAN, result \in BOOLEAN : answer = LocalSave(raw, result, review)
      BY <2>3
    <3> QED BY <3>1, <1>2
  <2>4. answer \in four
    <3> HIDE DEF remote, locals, four
    <3> QED BY <2>1, <2>2, <2>3
  <2> QED BY <2>4
<1>4. /\ Answer(TRUE, <<>>, review).archived = <<>>
      /\ Answer(TRUE, <<"raw">>, review).archived = <<"raw">>
      /\ \A error \in BOOLEAN : /\ Answer(error, AllKeys(review), review).archived = AllKeys(review)
                                /\ Answer(error, AllKeys(review), review).end = Ended(error, review)
      /\ Answer(TRUE, <<>>, review).end = "failed"
      /\ Answer(TRUE, <<"raw">>, review).end = "failed"
  BY DEF Answer, Ended
<1>5. /\ AllKeys(review) \in {<<"raw", "result">>, <<"raw", "result", "review">>}
      /\ Ended(TRUE, review) = "failed"
      /\ Ended(FALSE, review) = (IF review THEN "copied" ELSE "saved")
  BY DEF AllKeys, Ended
<1>6. CASE answer.end = "failed"
  BY <1>3, <1>4, <1>5, <1>6 DEF Ends
<1>7. CASE answer.end # "failed"
  <2>1. answer = Answer(FALSE, AllKeys(review), review)
    BY <1>3, <1>4, <1>5, <1>7
  <2>2. answer.archived = AllKeys(review) /\ answer.end = (IF review THEN "copied" ELSE "saved")
    BY <2>1, <1>4, <1>5
  <2>3. review = (answer.end = "copied") /\ answer.end \in {"saved", "copied"}
    BY <2>2
  <2> QED BY <2>2, <2>3, <1>5 DEF Ends
<1> QED BY <1>6, <1>7

\* ... as pictures: different ones, all of its frame.
LEMMA SaveNames ==
    ASSUME NEW f \in Frames,
           NEW keys \in {<<>>, <<"raw">>, <<"raw", "result">>, <<"raw", "result", "review">>}
    PROVE  LET names == [i \in 1 .. Len(keys) |-> PictureOf[f][keys[i]]]
           IN  /\ names \in Seq(Pictures)
               /\ Distinct(names)
               /\ ToSet(names) = {PictureOf[f][k] : k \in ToSet(keys)}
               /\ ToSet(names) \subseteq {PictureOf[f][k] : k \in Kinds}
<1> DEFINE names == [i \in 1 .. Len(keys) |-> PictureOf[f][keys[i]]]
<1>1. Len(keys) \in Nat /\ DOMAIN keys = 1 .. Len(keys)
  OBVIOUS
<1>2. \A i \in 1 .. Len(keys) : keys[i] \in Kinds
  BY DEF Kinds
<1>3. \A i, j \in 1 .. Len(keys) : keys[i] = keys[j] => i = j
  OBVIOUS
<1>4. names \in Seq(Pictures) /\ DOMAIN names = 1 .. Len(keys)
  BY <1>1, <1>2, PicturesAssumption
<1>5. Distinct(names)
  BY <1>2, <1>3, <1>4, PicturesAssumption DEF Distinct
<1>6. ToSet(names) = {PictureOf[f][k] : k \in ToSet(keys)}
  BY <1>1, <1>4 DEF ToSet
<1>7. ToSet(keys) \subseteq Kinds
  BY <1>1, <1>2 DEF ToSet
<1> QED BY <1>4, <1>5, <1>6, <1>7

\* The spool holds finitely many files, so they can be counted.
LEMMA SpoolStays ==
    ASSUME [Next]_vars
    PROVE  \/ UNCHANGED spool
           \/ Submit /\ ToSpool(Head(todo))
           \/ SpoolIt /\ ToSpool(thread.pic)
           \/ Unlink /\ spool' = spool \ {thread.pic}
<1>1. CASE \E f \in Frames, ng, review, training \in BOOLEAN : Save(f, ng, review, training)
  BY <1>1 DEF Save
<1>2. CASE Submit
  BY <1>2 DEF Submit
<1>3. CASE Take \/ EncodeFails \/ CheckMarker \/ WriteNas \/ WriteFails \/ SpoolIt
  BY <1>3 DEF Take, EncodeFails, CheckMarker, WriteNas, WriteFails, SpoolIt
<1>4. CASE RetryStart \/ MoveCheck \/ MoveWrite \/ MoveFails \/ Unlink \/ CountMoved
  BY <1>4 DEF RetryStart, MoveCheck, MoveWrite, MoveFails, Unlink, CountMoved
<1>5. CASE Mount \/ Unmount \/ Restart
  BY <1>5 DEF Mount, Unmount, Restart
<1>6. CASE UNCHANGED vars
  BY <1>6 DEF vars, archiveVars
<1> QED BY <1>1, <1>2, <1>3, <1>4, <1>5, <1>6 DEF Next, ArchiveNext, ThreadNext, ThreadFails

LEMMA FiniteStep ==
    ASSUME IsFiniteSet(spool), [Next]_vars
    PROVE  IsFiniteSet(spool')
<1>1. ASSUME NEW p, ToSpool(p) PROVE IsFiniteSet(spool')
  <2>1. spool' = spool \cup {p} \/ spool' = spool
    BY <1>1 DEF ToSpool
  <2> QED BY <2>1, FS_AddElement
<1>2. IsFiniteSet(spool \ {thread.pic})
  BY FS_RemoveElement
<1> QED BY <1>1, <1>2, SpoolStays

LEMMA TypeStep == TypeOK /\ IsFiniteSet(spool) /\ [Next]_vars => TypeOK'
<1> SUFFICES ASSUME TypeOK, IsFiniteSet(spool), [Next]_vars PROVE TypeOK'
  OBVIOUS
<1> USE NoTaskIsIdle
<1>0. thread \in Threads /\ q \in Seq(Pictures) /\ todo \in Seq(Pictures)
  BY DEF TypeOK, ArchiveTypeOK
<1>1. CASE Submit /\ UNCHANGED saves
  <2>1. Head(todo) \in Pictures /\ Tail(todo) \in Seq(Pictures)
    BY <1>0, <1>1, HeadAndTail DEF Submit
  <2>2. CASE RoomInQueue
    <3>1. /\ q' = Append(q, Head(todo)) /\ todo' = Tail(todo)
          /\ UNCHANGED <<spool, bytes, pending, dropped>>
      BY <1>1, <2>2 DEF Submit
    <3>2. q' \in Seq(Pictures) /\ Len(q') = Len(q) + 1 /\ Len(q) < QueueSize /\ Len(q) \in Nat
      BY <1>0, <2>1, <2>2, <3>1, AppendOne DEF RoomInQueue
    <3> QED BY <1>1, <2>1, <3>1, <3>2 DEF Submit, TypeOK, ArchiveTypeOK
  <2>3. CASE ~RoomInQueue
    <3>1. ToSpool(Head(todo)) /\ UNCHANGED q /\ todo' = Tail(todo)
      BY <1>1, <2>3 DEF Submit
    <3> QED BY <1>1, <2>1, <3>1, ToSpoolType DEF Submit, TypeOK, ArchiveTypeOK
  <2> QED BY <2>2, <2>3
<1>2. CASE Take /\ UNCHANGED saves
  <2>1. /\ Head(q) \in Pictures /\ Tail(q) \in Seq(Pictures) /\ Len(Tail(q)) <= Len(q)
        /\ Len(q) \in Nat /\ Len(Tail(q)) \in Nat
    BY <1>0, <1>2, HeadAndTail DEF Take
  <2>2. [step |-> "check", pic |-> Head(q)] \in Threads
    BY <2>1 DEF Threads
  <2> QED BY <1>2, <2>1, <2>2 DEF Take, TypeOK, ArchiveTypeOK
<1>3. CASE (EncodeFails \/ WriteNas \/ SpoolIt) /\ UNCHANGED saves
  <2>1. thread.pic \in Pictures
    BY <1>0, <1>3, ThreadShape DEF EncodeFails, WriteNas, SpoolIt, Holding
  <2>2. CASE EncodeFails BY <1>3, <2>1, <2>2 DEF EncodeFails, TypeOK, ArchiveTypeOK
  <2>3. CASE WriteNas
    <3>1. nas' \in SUBSET Pictures /\ misplaced' \in SUBSET Pictures
      BY <2>1, <2>3, PutType DEF WriteNas, TypeOK
    <3> QED BY <1>3, <2>3, <3>1 DEF WriteNas, TypeOK, ArchiveTypeOK
  <2>4. CASE SpoolIt
    <3>1. /\ bytes' \in Nat /\ pending' \in Nat /\ spool' \in SUBSET Pictures
          /\ dropped' \in SUBSET Pictures
      BY <2>1, <2>4, ToSpoolType DEF SpoolIt, TypeOK
    <3> QED BY <1>3, <2>4, <3>1 DEF SpoolIt, TypeOK, ArchiveTypeOK
  <2> QED BY <1>3, <2>2, <2>3, <2>4
<1>4. CASE (CheckMarker \/ WriteFails) /\ UNCHANGED saves
  <2>1. thread' \in Threads
    BY <1>0, <1>4, ThreadShape, HoldingStep DEF CheckMarker, WriteFails, Holding
  <2> QED BY <1>4, <2>1 DEF CheckMarker, WriteFails, TypeOK, ArchiveTypeOK
<1>5. CASE RetryStart /\ UNCHANGED saves
  <2>1. thread' \in Threads
    BY <1>5, MoveOne DEF RetryStart, TypeOK, ArchiveTypeOK
  <2> QED BY <1>5, <2>1 DEF RetryStart, TypeOK, ArchiveTypeOK
<1>6. CASE (MoveCheck \/ MoveFails) /\ UNCHANGED saves
  <2>1. thread' \in Threads
    BY <1>0, <1>6, ThreadShape, MovingStep DEF MoveCheck, MoveFails, Moving
  <2> QED BY <1>6, <2>1 DEF MoveCheck, MoveFails, TypeOK, ArchiveTypeOK
<1>7. CASE (MoveWrite \/ Unlink) /\ UNCHANGED saves
  <2>1. thread \in InMove /\ thread.pic \in Pictures
    BY <1>0, <1>7, ThreadShape DEF MoveWrite, Unlink, Moving, InMove
  <2>2. thread' \in Threads
    BY <1>7, <2>1, MovingStep DEF MoveWrite, Unlink, Moving
  <2>3. CASE MoveWrite
    <3>1. nas' \in SUBSET Pictures /\ misplaced' \in SUBSET Pictures
      BY <2>1, <2>3, PutType DEF MoveWrite, TypeOK
    <3> QED BY <1>7, <2>2, <2>3, <3>1 DEF MoveWrite, TypeOK, ArchiveTypeOK
  <2>4. CASE Unlink
    BY <1>7, <2>2, <2>4 DEF Unlink, TypeOK, ArchiveTypeOK
  <2> QED BY <1>7, <2>3, <2>4
<1>8. CASE CountMoved /\ UNCHANGED saves
  <2>1. thread \in InMove
    BY <1>0, <1>8, ThreadShape DEF CountMoved
  <2>2. thread.rest \in SUBSET Pictures
    BY <2>1 DEF InMove
  <2>3. thread' \in Threads
    BY <1>8, <2>2, MoveOne DEF CountMoved
  <2>4. bytes' \in Nat /\ pending' \in Nat
    BY <1>8 DEF CountMoved, TypeOK, ArchiveTypeOK
  <2> QED BY <1>8, <2>3, <2>4 DEF CountMoved, TypeOK, ArchiveTypeOK
<1>9. CASE (Mount \/ Unmount) /\ UNCHANGED saves
  <2>1. unmounts' \in 0 .. MaxUnmounts
    BY <1>9 DEF Mount, Unmount, TypeOK, ArchiveTypeOK
  <2>2. mounted' \in BOOLEAN
    BY <1>9 DEF Mount, Unmount
  <2> QED BY <1>9, <2>1, <2>2 DEF Mount, Unmount, TypeOK, ArchiveTypeOK
<1>10. CASE Restart /\ UNCHANGED saves
  <2>1. bytes' \in Nat /\ pending' \in Nat /\ unseen' \in Nat
    BY <1>10, FS_CardinalityType DEF Restart, Scan
  <2>2. crashes' \in 0 .. MaxCrashes
    BY <1>10 DEF Restart, TypeOK, ArchiveTypeOK
  <2>3. lost' \in SUBSET Pictures
    <3>1. ToSet(todo) \subseteq Pictures /\ ToSet(q) \subseteq Pictures
      BY <1>0 DEF ToSet
    <3>2. InHand \subseteq Pictures
      BY <1>0, ThreadShape DEF InHand, Holding
    <3> QED BY <1>10, <3>1, <3>2 DEF Restart, TypeOK, ArchiveTypeOK
  <2>4. q' \in Seq(Pictures) /\ todo' \in Seq(Pictures) /\ Len(q') = 0
    BY <1>10 DEF Restart
  <2> QED BY <1>10, <2>1, <2>2, <2>3, <2>4 DEF Restart, TypeOK, ArchiveTypeOK
<1>11. ASSUME NEW f \in Frames, NEW ng \in BOOLEAN, NEW review \in BOOLEAN,
              NEW training \in BOOLEAN, Save(f, ng, review, training)
       PROVE  TypeOK'
  <2>1. PICK answer \in SaveOutcomes(ng, review, training) :
           /\ saves' = [saves EXCEPT ![f] = answer.end]
           /\ todo' = [i \in 1 .. Len(answer.archived) |-> PictureOf[f][answer.archived[i]]]
    BY <1>11 DEF Save
  <2>2. saves' \in [Frames -> Ends]
    BY <2>1, SaveAnswers DEF TypeOK
  <2>3. todo' \in Seq(Pictures)
    <3>1. answer.archived \in {<<>>, <<"raw">>, <<"raw", "result">>, <<"raw", "result", "review">>}
      BY SaveAnswers
    <3> QED BY <2>1, <3>1, SaveNames
  <2> QED BY <1>11, <2>2, <2>3 DEF Save, TypeOK, ArchiveTypeOK
<1>12. CASE UNCHANGED vars
  BY <1>12 DEF vars, archiveVars, TypeOK, ArchiveTypeOK
<1> QED
  BY <1>1, <1>2, <1>3, <1>4, <1>5, <1>6, <1>7, <1>8, <1>9, <1>10, <1>11, <1>12
  DEF Next, ArchiveNext, ThreadNext, ThreadFails

-----------------------------------------------------------------------------
(* Where the pictures are *)

Care == ToSet(todo) \cup ToSet(q) \cup InHand \cup spool
Everywhere == Care \cup nas \cup misplaced \cup dropped \cup lost

\* A picture on its way is in one place and there once.
OnceInv ==
    /\ Distinct(todo) /\ Distinct(q)
    /\ ToSet(todo) \cap (ToSet(q) \cup InHand \cup spool) = {}
    /\ ToSet(q) \cap (InHand \cup spool) = {}
    /\ InHand \cap spool = {}

\* A file that is moved is in the spool until it is removed, and is on the
\* drive, or below the mount point, by then.
MoveInv ==
    /\ thread.step \in Moving => thread.pic \in spool /\ thread.pic \notin thread.rest
    /\ thread.step \in Moving \cup {"count"} => thread.rest \subseteq spool
    /\ thread.step = "unlink" => thread.pic \in nas \cup misplaced

\* No picture comes on its way again and none gets lost.
Flows == OnceInv' /\ MoveInv' /\ Care' \subseteq Care /\ Everywhere \subseteq Everywhere'

LEMMA ToSpoolFlow ==
    ASSUME NEW p, ToSpool(p)
    PROVE  \/ spool' = spool \cup {p} /\ dropped' = dropped
           \/ spool' = spool /\ dropped' = dropped \cup {p}
  BY DEF ToSpool

LEMMA PutFlow ==
    ASSUME NEW p, Put(p)
    PROVE  /\ nas \subseteq nas' /\ misplaced \subseteq misplaced'
           /\ p \in nas' \cup misplaced'
  BY DEF Put

LEMMA ThreadWithout ==
    ASSUME thread.step \notin Holding
    PROVE  InHand = {}
  BY DEF InHand, Holding

LEMMA ThreadWith ==
    ASSUME thread.step \in Holding
    PROVE  InHand = {thread.pic}
  BY DEF InHand, Holding

\* ... and the same of the thread after a step.
LEMMA ThreadWithoutNext ==
    ASSUME thread'.step \notin Holding
    PROVE  InHand' = {}
  BY DEF InHand, Holding

LEMMA ThreadWithNext ==
    ASSUME thread'.step \in Holding
    PROVE  InHand' = {thread'.pic}
  BY DEF InHand, Holding

LEMMA FlowStep ==
    ASSUME TypeOK, OnceInv, MoveInv, ArchiveNext \/ UNCHANGED vars
    PROVE  Flows
<1> USE DEF Flows
<1>0. /\ thread \in Threads /\ q \in Seq(Pictures) /\ todo \in Seq(Pictures)
  BY DEF TypeOK, ArchiveTypeOK
<1>1. CASE Submit
  <2>1. /\ Head(todo) \in Pictures /\ ToSet(todo) = {Head(todo)} \cup ToSet(todo')
        /\ Distinct(todo') /\ Head(todo) \notin ToSet(todo')
        /\ Head(todo) \notin ToSet(q) \cup InHand \cup spool
    BY <1>0, <1>1, HeadAndTail DEF Submit, OnceInv
  <2>2. /\ UNCHANGED <<thread, nas, misplaced, lost>> /\ InHand' = InHand
    BY <1>1 DEF Submit, InHand
  <2>3. CASE q' = Append(q, Head(todo)) /\ UNCHANGED <<spool, dropped>>
    <3>1. ToSet(q') = ToSet(q) \cup {Head(todo)} /\ Distinct(q')
      BY <1>0, <2>1, <2>3, AppendOne DEF OnceInv
    <3> QED BY <2>1, <2>2, <2>3, <3>1 DEF OnceInv, MoveInv, Care, Everywhere
  <2>4. CASE ToSpool(Head(todo)) /\ UNCHANGED q
    <3>1. ToSet(q') = ToSet(q) /\ Distinct(q')
      BY <2>4 DEF OnceInv
    <3> QED BY <2>1, <2>2, <2>4, <3>1, ToSpoolFlow DEF OnceInv, MoveInv, Care, Everywhere
  <2> QED BY <1>1, <2>3, <2>4 DEF Submit
<1>2. CASE Take
  <2>1. /\ ToSet(q) = {Head(q)} \cup ToSet(q')
        /\ Distinct(q') /\ Head(q) \notin ToSet(q')
    BY <1>0, <1>2, HeadAndTail DEF Take, OnceInv
  <2>2. thread'.step = "check" /\ thread'.pic = Head(q)
    BY <1>2 DEF Take
  <2>3. InHand = {} /\ InHand' = {Head(q)}
    BY <1>2, <2>2, NoTaskIsIdle, ThreadWithout, ThreadWithNext DEF Take, Holding
  <2>4. UNCHANGED <<todo, spool, nas, misplaced, dropped, lost>>
    BY <1>2 DEF Take
  <2> QED BY <2>1, <2>2, <2>3, <2>4 DEF OnceInv, MoveInv, Care, Everywhere, Moving
<1>3. CASE EncodeFails \/ WriteNas \/ SpoolIt
  <2>1. InHand = {thread.pic} /\ InHand' = {} /\ thread'.step = "idle"
    BY <1>3, NoTaskIsIdle, ThreadWith, ThreadWithoutNext
    DEF EncodeFails, WriteNas, SpoolIt, Holding
  <2>2. UNCHANGED <<todo, q, lost>>
    BY <1>3 DEF EncodeFails, WriteNas, SpoolIt
  <2>3. CASE EncodeFails
    BY <2>1, <2>2, <2>3 DEF EncodeFails, OnceInv, MoveInv, Care, Everywhere, Moving
  <2>4. CASE WriteNas
    BY <2>1, <2>2, <2>4, PutFlow DEF WriteNas, OnceInv, MoveInv, Care, Everywhere, Moving
  <2>5. CASE SpoolIt
    BY <2>1, <2>2, <2>5, ToSpoolFlow DEF SpoolIt, OnceInv, MoveInv, Care, Everywhere, Moving
  <2> QED BY <1>3, <2>3, <2>4, <2>5
<1>4. CASE CheckMarker \/ WriteFails
  <2>1. /\ thread.step \in Holding /\ thread'.step \in Holding /\ thread'.pic = thread.pic
    BY <1>0, <1>4, ThreadShape, HoldingStep DEF CheckMarker, WriteFails, Holding
  <2>2. InHand' = InHand
    BY <2>1, ThreadWith, ThreadWithNext
  <2>3. UNCHANGED <<todo, q, spool, nas, misplaced, dropped, lost>>
    BY <1>4 DEF CheckMarker, WriteFails
  <2> QED BY <2>1, <2>2, <2>3 DEF OnceInv, MoveInv, Care, Everywhere, Holding, Moving
<1>5. CASE RetryStart \/ CountMoved
  <2>1. PICK rest \in SUBSET spool : thread' \in Move(rest)
    BY <1>5 DEF RetryStart, CountMoved, MoveInv
  <2>2. /\ thread'.step \in {"idle", "moveCheck"}
        /\ thread'.step = "moveCheck" =>
              thread'.pic \in rest /\ thread'.rest = rest \ {thread'.pic}
    BY <2>1, MoveOne, NoTaskIsIdle DEF TypeOK, ArchiveTypeOK
  <2>3. InHand = {} /\ InHand' = {}
    BY <1>5, <2>2, NoTaskIsIdle, ThreadWithout, ThreadWithoutNext
    DEF RetryStart, CountMoved, Holding
  <2>4. UNCHANGED <<todo, q, spool, nas, misplaced, dropped, lost>>
    BY <1>5 DEF RetryStart, CountMoved
  <2> QED BY <2>2, <2>3, <2>4 DEF OnceInv, MoveInv, Care, Everywhere, Moving
<1>6. CASE MoveCheck \/ MoveWrite \/ MoveFails
  <2>1. thread \in InMove /\ thread.step \in Moving
    BY <1>0, <1>6, ThreadShape DEF MoveCheck, MoveWrite, MoveFails, Moving
  <2>2. \/ thread'.step = "idle"
        \/ /\ thread'.step \in Moving /\ thread'.pic = thread.pic /\ thread'.rest = thread.rest
           /\ thread'.step = "unlink" => MoveWrite
    <3>1. CASE thread' = NoTask
      BY <3>1, NoTaskIsIdle
    <3>2. CASE MoveCheck /\ thread' = [thread EXCEPT !.step = "moveWrite"]
      BY <2>1, <3>2, MovingStep DEF Moving
    <3>3. CASE MoveWrite
      BY <2>1, <3>3, MovingStep DEF MoveWrite, Moving
    <3> QED BY <1>6, <3>1, <3>2, <3>3 DEF MoveCheck, MoveFails
  <2>3. InHand = {} /\ InHand' = {}
    BY <2>1, <2>2, ThreadWithout, ThreadWithoutNext DEF Holding, Moving
  <2>4. /\ UNCHANGED <<todo, q, spool, dropped, lost>>
        /\ nas \subseteq nas' /\ misplaced \subseteq misplaced'
        /\ MoveWrite => thread.pic \in nas' \cup misplaced'
    BY <1>6, PutFlow DEF MoveCheck, MoveWrite, MoveFails
  <2> QED BY <2>1, <2>2, <2>3, <2>4 DEF OnceInv, MoveInv, Care, Everywhere, Moving
<1>7. CASE Unlink
  <2>1. thread \in InMove /\ thread.step = "unlink"
    BY <1>0, <1>7, ThreadShape DEF Unlink, Moving
  <2>2. thread'.step = "count" /\ thread'.rest = thread.rest
    BY <1>7, <2>1, MovingStep DEF Unlink
  <2>3. InHand = {} /\ InHand' = {}
    BY <2>1, <2>2, ThreadWithout, ThreadWithoutNext DEF Holding
  <2>4. UNCHANGED <<todo, q, nas, misplaced, dropped, lost>> /\ spool' = spool \ {thread.pic}
    BY <1>7 DEF Unlink
  <2> QED BY <2>1, <2>2, <2>3, <2>4 DEF OnceInv, MoveInv, Care, Everywhere, Moving
<1>8. CASE Mount \/ Unmount \/ UNCHANGED vars
  <2>1. UNCHANGED <<todo, q, thread, spool, nas, misplaced, dropped, lost>>
    BY <1>8 DEF Mount, Unmount, vars, archiveVars
  <2> QED BY <2>1 DEF OnceInv, MoveInv, Care, Everywhere, InHand
<1>9. CASE Restart
  <2>1. thread'.step = "idle" /\ InHand' = {}
    BY <1>9, NoTaskIsIdle, ThreadWithoutNext DEF Restart, Holding
  <2>2. ToSet(todo') = {} /\ ToSet(q') = {} /\ Distinct(todo') /\ Distinct(q')
    BY <1>9, EmptySequence DEF Restart
  <2> QED BY <1>9, <2>1, <2>2 DEF Restart, OnceInv, MoveInv, Care, Everywhere, Moving
<1> QED
  BY <1>1, <1>2, <1>3, <1>4, <1>5, <1>6, <1>7, <1>8, <1>9
  DEF ArchiveNext, ThreadNext, ThreadFails

-----------------------------------------------------------------------------
(* The theorems *)

\* The pictures of a frame not saved yet have never been on their way.
NewInv ==
    \A f \in Frames : saves[f] = "none" => \A k \in Kinds : PictureOf[f][k] \notin Care

PlaceInv == TypeOK /\ IsFiniteSet(spool) /\ OnceInv /\ MoveInv /\ NewInv /\ SavedIsArchived

LEMMA HandedIsEverywhere == \A p : Handed(p) <=> p \in Everywhere
  BY DEF Handed, Everywhere, Care

LEMMA HandedIsEverywhereNext == \A p : Handed(p)' <=> p \in Everywhere'
  BY DEF Handed, Everywhere, Care

LEMMA PlaceInitially == Init => PlaceInv
<1> SUFFICES ASSUME Init PROVE PlaceInv
  OBVIOUS
<1>1. TypeOK /\ IsFiniteSet(spool)
  BY TypeInitially, FS_EmptySet DEF Init, ArchiveInit
<1>2. ToSet(todo) = {} /\ ToSet(q) = {} /\ Distinct(todo) /\ Distinct(q) /\ spool = {}
  BY EmptySequence DEF Init, ArchiveInit
<1>3. InHand = {} /\ thread.step = "idle"
  BY NoTaskIsIdle DEF Init, ArchiveInit, InHand
<1>4. \A f \in Frames : saves[f] = "none"
  BY DEF Init
<1> QED
  BY <1>1, <1>2, <1>3, <1>4
  DEF PlaceInv, OnceInv, MoveInv, NewInv, SavedIsArchived, Care, Moving

LEMMA PlaceStep == PlaceInv /\ [Next]_vars => PlaceInv'
<1> SUFFICES ASSUME PlaceInv, [Next]_vars PROVE PlaceInv'
  OBVIOUS
<1> USE DEF PlaceInv
<1>1. TypeOK' /\ IsFiniteSet(spool')
  BY TypeStep, FiniteStep
<1>2. CASE (ArchiveNext /\ UNCHANGED saves) \/ UNCHANGED vars
  <2>1. Flows
    BY <1>2, FlowStep
  <2>2. UNCHANGED saves
    BY <1>2 DEF vars
  <2>3. NewInv'
    BY <2>1, <2>2 DEF Flows, NewInv
  <2>4. SavedIsArchived'
    BY <2>1, <2>2, HandedIsEverywhere, HandedIsEverywhereNext DEF Flows, SavedIsArchived
  <2> QED BY <1>1, <2>1, <2>3, <2>4 DEF Flows
<1>3. ASSUME NEW f \in Frames, NEW ng \in BOOLEAN, NEW review \in BOOLEAN,
             NEW training \in BOOLEAN, Save(f, ng, review, training)
      PROVE  PlaceInv'
  <2>1. PICK answer \in SaveOutcomes(ng, review, training) :
           /\ saves' = [saves EXCEPT ![f] = answer.end]
           /\ todo' = [i \in 1 .. Len(answer.archived) |-> PictureOf[f][answer.archived[i]]]
    BY <1>3 DEF Save
  <2>2. /\ answer.end # "none"
        /\ answer.archived \in {<<>>, <<"raw">>, <<"raw", "result">>, <<"raw", "result", "review">>}
        /\ answer.end \in {"saved", "copied"} => answer.archived = AllKeys(answer.end = "copied")
    BY SaveAnswers
  <2>3. /\ Distinct(todo')
        /\ ToSet(todo') = {PictureOf[f][k] : k \in ToSet(answer.archived)}
        /\ ToSet(todo') \subseteq {PictureOf[f][k] : k \in Kinds}
    BY <2>1, <2>2, SaveNames
  <2>4. /\ UNCHANGED <<q, thread, spool, nas, misplaced, dropped, lost>>
        /\ ToSet(todo) = {} /\ saves[f] = "none" /\ InHand' = InHand
    BY <1>3, EmptySequence DEF Save, InHand
  <2>5. saves'[f] = answer.end /\ \A g \in Frames \ {f} : saves'[g] = saves[g]
    BY <2>1 DEF TypeOK
  <2>6. OnceInv' /\ MoveInv'
    <3>1. \A p \in ToSet(todo') : p \notin Care
      BY <2>3, <2>4 DEF NewInv
    <3> QED BY <2>3, <2>4, <3>1 DEF OnceInv, MoveInv, Care
  <2>7. NewInv'
    <3> SUFFICES ASSUME NEW g \in Frames \ {f}, saves[g] = "none", NEW k \in Kinds
                 PROVE  PictureOf[g][k] \notin Care'
      BY <2>2, <2>5 DEF NewInv
    <3>1. PictureOf[g][k] \notin ToSet(todo')
      BY <2>3, PicturesAssumption
    <3> QED BY <2>4, <3>1 DEF NewInv, Care
  <2>8. SavedIsArchived'
    <3>1. Everywhere \subseteq Everywhere' /\ ToSet(todo') \subseteq Everywhere'
      BY <2>4 DEF Everywhere, Care
    <3> SUFFICES ASSUME NEW g \in Frames, saves'[g] \in {"saved", "copied"},
                        NEW k \in ToSet(AllKeys(saves'[g] = "copied"))
                 PROVE  PictureOf[g][k] \in Everywhere'
      BY HandedIsEverywhereNext DEF SavedIsArchived
    <3>2. CASE g = f
      BY <2>2, <2>3, <2>5, <3>1, <3>2
    <3>3. CASE g # f
      BY <2>5, <3>1, <3>3, HandedIsEverywhere DEF SavedIsArchived
    <3> QED BY <3>2, <3>3
  <2> QED BY <1>1, <2>6, <2>7, <2>8
<1> QED BY <1>2, <1>3 DEF Next

LEMMA PlacesHold == Spec => []PlaceInv
  BY PlaceInitially, PlaceStep, PTL DEF Spec

\* The queue, the spool, the counters and the thread keep their types, for
\* every limit and every number of restarts.
THEOREM ArchiveTypeCorrect == Spec => []TypeOK
<1>1. PlaceInv => TypeOK
  BY DEF PlaceInv
<1> QED BY PlacesHold, <1>1, PTL

\* For every number of frames, every queue, every spool: no picture of a
\* frame saved without an error vanishes from the archive's care.
THEOREM NothingVanishes == Spec => []SavedIsArchived
<1>1. PlaceInv => SavedIsArchived
  BY DEF PlaceInv
<1> QED BY PlacesHold, <1>1, PTL

LEMMA CountInitially == Init => CountersTrue
  BY FS_EmptySet, NoTaskIsIdle DEF Init, ArchiveInit, CountersTrue, Size

LEMMA CountStep == PlaceInv /\ CountersTrue /\ [Next]_vars => CountersTrue'
<1> SUFFICES ASSUME PlaceInv, CountersTrue, [Next]_vars PROVE CountersTrue'
  OBVIOUS
<1>1. /\ IsFiniteSet(spool) /\ Cardinality(spool) \in Nat
      /\ thread \in Threads /\ todo \in Seq(Pictures)
      /\ bytes \in Nat /\ pending \in Nat /\ unseen \in Nat
  BY FS_CardinalityType DEF PlaceInv, TypeOK, ArchiveTypeOK
<1>2. ASSUME NEW p, p \notin spool, ToSpool(p), UNCHANGED unseen, (thread.step = "count") <=> (thread'.step = "count")
      PROVE  CountersTrue'
  <2>1. Cardinality(spool \cup {p}) = Cardinality(spool) + 1
    BY <1>1, <1>2, FS_AddElement
  <2>2. CASE spool' = spool \cup {p} /\ bytes' = bytes + 1 /\ pending' = pending + 1
    <3>1. Cardinality(spool') = Cardinality(spool) + 1
      BY <2>1, <2>2
    <3> QED BY <1>1, <1>2, <2>2, <3>1 DEF CountersTrue, Size
  <2>3. CASE UNCHANGED <<spool, bytes, pending>>
    BY <1>2, <2>3 DEF CountersTrue, Size
  <2> QED BY <1>2, <2>2, <2>3 DEF ToSpool
<1>3. ASSUME UNCHANGED <<spool, bytes, pending, unseen>>,
             (thread.step = "count") <=> (thread'.step = "count")
      PROVE  CountersTrue'
  BY <1>3 DEF CountersTrue, Size
<1>4. CASE Submit
  <2>1. UNCHANGED <<thread, unseen>> /\ Head(todo) \notin spool
    BY <1>1, <1>4, HeadAndTail DEF Submit, PlaceInv, OnceInv
  <2> QED BY <1>2, <1>3, <1>4, <2>1 DEF Submit
<1>5. CASE Take \/ EncodeFails \/ WriteNas
  BY <1>3, <1>5, NoTaskIsIdle DEF Take, EncodeFails, WriteNas
<1>6. CASE CheckMarker \/ WriteFails
  <2>1. thread.step \in Holding /\ thread'.step \in Holding
    BY <1>1, <1>6, ThreadShape, HoldingStep DEF CheckMarker, WriteFails, Holding
  <2> QED BY <1>3, <1>6, <2>1 DEF CheckMarker, WriteFails, Holding
<1>7. CASE SpoolIt
  <2>1. /\ thread.step = "spool" /\ thread'.step = "idle" /\ ToSpool(thread.pic)
        /\ UNCHANGED unseen
    BY <1>7, NoTaskIsIdle DEF SpoolIt
  <2>2. thread.pic \notin spool
    BY <2>1, ThreadWith DEF PlaceInv, OnceInv, Holding
  <2> QED BY <1>2, <2>1, <2>2
<1>8. CASE RetryStart
  <2>1. thread.step = "idle" /\ thread'.step \in {"idle", "moveCheck"}
    BY <1>8, MoveOne, NoTaskIsIdle DEF RetryStart, PlaceInv, TypeOK, ArchiveTypeOK
  <2> QED BY <1>3, <1>8, <2>1 DEF RetryStart
<1>9. CASE MoveCheck \/ MoveWrite \/ MoveFails
  <2>1. thread \in InMove /\ thread.step \in Moving
    BY <1>1, <1>9, ThreadShape DEF MoveCheck, MoveWrite, MoveFails, Moving
  <2>2. thread'.step # "count"
    BY <1>9, <2>1, MovingStep, NoTaskIsIdle DEF MoveCheck, MoveWrite, MoveFails, Moving
  <2> QED BY <1>3, <1>9, <2>1, <2>2 DEF MoveCheck, MoveWrite, MoveFails, Moving
<1>10. CASE Unlink
  <2>1. thread \in InMove /\ thread.step = "unlink" /\ thread.pic \in spool
    BY <1>1, <1>10, ThreadShape DEF Unlink, Moving, PlaceInv, MoveInv
  <2>2. thread'.step = "count"
    BY <1>10, <2>1, MovingStep DEF Unlink
  <2>3. Cardinality(spool \ {thread.pic}) = Cardinality(spool) - 1
    BY <1>1, <2>1, FS_RemoveElement
  <2> QED BY <1>1, <1>10, <2>1, <2>2, <2>3 DEF Unlink, CountersTrue, Size
<1>11. CASE CountMoved
  <2>1. thread.step = "count" /\ thread.rest \in SUBSET Pictures
    BY <1>1, <1>11, ThreadShape DEF CountMoved, InMove
  <2>2. thread'.step \in {"idle", "moveCheck"}
    BY <1>11, <2>1, MoveOne DEF CountMoved
  <2> QED BY <1>1, <1>11, <2>1, <2>2 DEF CountMoved, CountersTrue, Size
<1>12. CASE Restart
  <2>1. thread'.step = "idle" /\ UNCHANGED spool /\ Scan
    BY <1>12, NoTaskIsIdle DEF Restart
  <2>2. CASE bytes' = Cardinality(spool) /\ pending' = Cardinality(spool) /\ unseen' = 0
    BY <1>1, <2>1, <2>2 DEF CountersTrue, Size
  <2>3. CASE bytes' = 0 /\ pending' = 0 /\ unseen' = Cardinality(spool)
    BY <1>1, <2>1, <2>3 DEF CountersTrue, Size
  <2> QED BY <2>1, <2>2, <2>3 DEF Scan
<1>13. CASE Mount \/ Unmount \/ UNCHANGED vars
  BY <1>3, <1>13 DEF Mount, Unmount, vars, archiveVars
<1>14. CASE \E f \in Frames, ng, review, training \in BOOLEAN : Save(f, ng, review, training)
  BY <1>3, <1>14 DEF Save
<1> QED
  BY <1>4, <1>5, <1>6, <1>7, <1>8, <1>9, <1>10, <1>11, <1>12, <1>13, <1>14
  DEF Next, ArchiveNext, ThreadNext, ThreadFails

\* The limit of the spool and the retry see the files there are, whatever is
\* submitted while a file is moved, for every spool and every crash.
THEOREM CountersStayTrue == Spec => []CountersTrue
<1>1. Init => PlaceInv /\ CountersTrue
  BY PlaceInitially, CountInitially
<1>2. PlaceInv /\ CountersTrue /\ [Next]_vars => (PlaceInv /\ CountersTrue)'
  BY PlaceStep, CountStep
<1> QED BY <1>1, <1>2, PTL DEF Spec

\* A write that has seen the marker may still meet an unmounted drive.
AtRisk == IF thread.step \in {"write", "moveWrite"} /\ ~mounted THEN 1 ELSE 0

RiskInv ==
    /\ IsFiniteSet(misplaced)
    /\ Cardinality(misplaced) + AtRisk <= unmounts

LEMMA RiskInitially == Init => RiskInv
  BY FS_EmptySet, NoTaskIsIdle DEF Init, ArchiveInit, RiskInv, AtRisk

LEMMA RiskStep == TypeOK /\ RiskInv /\ [Next]_vars => RiskInv'
<1> SUFFICES ASSUME TypeOK, RiskInv, [Next]_vars PROVE RiskInv'
  OBVIOUS
<1>1. /\ thread \in Threads /\ unmounts \in Nat /\ IsFiniteSet(misplaced)
      /\ Cardinality(misplaced) \in Nat
  BY FS_CardinalityType DEF RiskInv, TypeOK, ArchiveTypeOK
<1>2. ASSUME UNCHANGED <<misplaced, unmounts>>,
             thread'.step \in {"write", "moveWrite"} /\ ~mounted' =>
                thread.step \in {"write", "moveWrite"} /\ ~mounted
      PROVE  RiskInv'
  BY <1>1, <1>2 DEF RiskInv, AtRisk
<1>3. ASSUME NEW p, Put(p), UNCHANGED <<mounted, unmounts>>,
             thread.step \in {"write", "moveWrite"}, thread'.step \notin {"write", "moveWrite"}
      PROVE  RiskInv'
  <2>1. CASE mounted
    BY <1>1, <1>3, <2>1 DEF RiskInv, AtRisk, Put
  <2>2. CASE ~mounted
    <3>1. misplaced' = misplaced \cup {p}
      BY <1>3, <2>2 DEF Put
    <3>2. /\ IsFiniteSet(misplaced \cup {p})
          /\ \/ Cardinality(misplaced \cup {p}) = Cardinality(misplaced)
             \/ Cardinality(misplaced \cup {p}) = Cardinality(misplaced) + 1
      BY <1>1, FS_AddElement
    <3>3. IsFiniteSet(misplaced') /\ Cardinality(misplaced') \in Nat
      BY <3>1, <3>2, FS_CardinalityType
    <3>4. Cardinality(misplaced') <= Cardinality(misplaced) + 1
      BY <1>1, <3>1, <3>2
    <3> QED BY <1>1, <1>3, <2>2, <3>3, <3>4 DEF RiskInv, AtRisk
  <2> QED BY <2>1, <2>2
<1>4. CASE Submit
  BY <1>2, <1>4 DEF Submit
<1>5. CASE Take \/ EncodeFails \/ SpoolIt \/ Restart
  BY <1>2, <1>5, NoTaskIsIdle DEF Take, EncodeFails, SpoolIt, Restart
<1>6. CASE CheckMarker
  <2>1. thread'.step = "write" => mounted /\ UNCHANGED mounted
    BY <1>1, <1>6, ThreadShape, HoldingStep DEF CheckMarker, Holding
  <2>2. thread'.step \in Holding
    BY <1>1, <1>6, ThreadShape, HoldingStep DEF CheckMarker, Holding
  <2> QED BY <1>2, <1>6, <2>1, <2>2 DEF CheckMarker, Holding
<1>7. CASE WriteFails
  <2>1. thread'.step = "spool"
    BY <1>1, <1>7, ThreadShape, HoldingStep DEF WriteFails, Holding
  <2> QED BY <1>2, <1>7, <2>1 DEF WriteFails
<1>8. CASE WriteNas
  BY <1>3, <1>8, NoTaskIsIdle DEF WriteNas
<1>9. CASE RetryStart \/ CountMoved
  <2>1. \E rest \in SUBSET Pictures : thread' \in Move(rest)
    BY <1>1, <1>9, ThreadShape DEF RetryStart, CountMoved, InMove, TypeOK, ArchiveTypeOK
  <2>2. thread'.step \in {"idle", "moveCheck"}
    BY <2>1, MoveOne
  <2> QED BY <1>2, <1>9, <2>2 DEF RetryStart, CountMoved
<1>10. CASE MoveCheck \/ MoveFails \/ Unlink
  <2>1. thread \in InMove /\ thread.step \in Moving
    BY <1>1, <1>10, ThreadShape DEF MoveCheck, MoveFails, Unlink, Moving
  <2>2. \/ thread' = NoTask
        \/ thread' = [thread EXCEPT !.step = "moveWrite"] /\ mounted
        \/ thread' = [thread EXCEPT !.step = "count"]
    BY <1>10 DEF MoveCheck, MoveFails, Unlink, MarkerSeen
  <2>3. thread'.step = "idle" \/ (thread'.step = "moveWrite" /\ mounted) \/ thread'.step = "count"
    BY <2>1, <2>2, MovingStep, NoTaskIsIdle DEF Moving
  <2> QED BY <1>2, <1>10, <2>3 DEF MoveCheck, MoveFails, Unlink
<1>11. CASE MoveWrite
  <2>1. thread'.step = "unlink"
    BY <1>1, <1>11, ThreadShape, MovingStep DEF MoveWrite, Moving
  <2> QED BY <1>3, <1>11, <2>1 DEF MoveWrite
<1>12. CASE Mount
  BY <1>2, <1>12 DEF Mount
<1>13. CASE Unmount
  BY <1>1, <1>13 DEF Unmount, RiskInv, AtRisk
<1>14. CASE UNCHANGED vars
  BY <1>2, <1>14 DEF vars, archiveVars
<1>15. CASE \E f \in Frames, ng, review, training \in BOOLEAN : Save(f, ng, review, training)
  BY <1>2, <1>15 DEF Save
<1> QED
  BY <1>4, <1>5, <1>6, <1>7, <1>8, <1>9, <1>10, <1>11, <1>12, <1>13, <1>14, <1>15
  DEF Next, ArchiveNext, ThreadNext, ThreadFails

\* However often the drive goes away, at most as many pictures end up below
\* the mount point, whatever the queue and the spool hold.
THEOREM FewMisplaced == Spec => []MisplacedBounded
<1>1. Init => TypeOK /\ RiskInv
  BY TypeInitially, RiskInitially
<1>2. PlaceInv /\ TypeOK /\ RiskInv /\ [Next]_vars => RiskInv'
  BY RiskStep
<1>3. TypeOK /\ RiskInv => MisplacedBounded
  BY FS_CardinalityType DEF TypeOK, ArchiveTypeOK, RiskInv, AtRisk, MisplacedBounded
<1> QED BY <1>1, <1>2, <1>3, ArchiveTypeCorrect, PlacesHold, PTL DEF Spec
=============================================================================
