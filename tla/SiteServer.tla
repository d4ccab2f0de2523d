------------------------------ MODULE SiteServer ------------------------------
(***************************************************************************)
(* What becomes of a tube after its picture is taken, on one site: the     *)
(* verdict, the row, the pictures on the disk, the figures, the person who *)
(* looks again - and the two things that go on beside it in the API        *)
(* process, the cleanup of the disk and the update of the program.  They   *)
(* meet on the disk, which the pictures fill and a build needs, and in the *)
(* restart of the service, which ends both.                                *)
(*                                                                         *)
(* The way of a row to the database and to the MES is left out: it is what *)
(* ResultDelivery and MesRestLink are about.                               *)
(***************************************************************************)
EXTENDS TubeVerdict, QualityFigures, ImageRetention, Updater

CONSTANTS
    Menus,      \* the shots that may come, by the name of the menu
    BuildRoom,  \* the room a build needs
    Budgets     \* what may happen, and how often

ASSUME SiteAssumption ==
    /\ \A menu \in DOMAIN Menus : \A s \in Menus[menu] : IsShot(s)
    /\ Budgets \subseteq [menu : DOMAIN Menus, shots : Nat, reviews : Nat,
                          days : Nat, cleanups : Nat, failures : Nat,
                          commits : Nat, asks : Nat, late : Nat, checks : Nat,
                          rollbacks : Nat, cuts : Nat, systemd : BOOLEAN,
                          missing : SUBSET Parts]
    /\ BuildRoom \in Nat

VARIABLES
    taken,      \* the shots, in order
    rows,       \* the rows of each shot
    red,        \* the tower light
    left        \* what is left of the budget

siteVars == <<taken, rows, red>>
vars == <<siteVars, retentionVars, updateVars, left>>

\* Rows are what the verdicts make of the shots, changed by reviews only;
\* pictures are of shots; the threads are where they can be.
TypeOK ==
    /\ RetentionTypeOK /\ UpdateTypeOK
    /\ \A k \in DOMAIN taken : IsShot(taken[k])
    /\ DOMAIN rows = DOMAIN taken
    /\ \A k \in DOMAIN rows :
          /\ Len(rows[k]) = Len(RowsOf(taken[k]))
          /\ \A i \in DOMAIN rows[k] : rows[k][i].manual \in {"none", "OK", "NG"}
    /\ \A n \in DOMAIN age : n.shot \in DOMAIN taken
    /\ FreeRoom >= 0
    /\ red \in BOOLEAN

Init ==
    /\ RetentionInit /\ UpdateInit
    /\ taken = <<>> /\ rows = <<>>
    /\ red = FALSE
    /\ left \in Budgets /\ left.systemd = systemd /\ left.missing = missing

Spend(what) == left[what] > 0 /\ left' = [left EXCEPT ![what] = @ - 1]

\* A failure happens, or does not.
May(fails) == IF fails THEN Spend("failures") ELSE UNCHANGED left

\* ... and so with a request.
SpendMay(what, fails) ==
    /\ left[what] > 0 /\ (fails => left.failures > 0)
    /\ left' = [left EXCEPT ![what] = @ - 1,
                            !.failures = IF fails THEN @ - 1 ELSE @]

-----------------------------------------------------------------------------
(* Steps *)

\* The pictures in the order they are written, as many as there is room for.
Named(s) ==
    {[shot |-> Len(taken) + 1, dir |-> p.dir, verdict |-> p.verdict] : p \in PicturesOf(s)}

\* Faulty variant: the disk takes whatever comes.
FittingAlways(names) == names

Fitting(names) ==
    {n \in names : Cardinality({m \in names : Bucket(m) < Bucket(n)}) < FreeRoom}

\* A cycle of the worker.
Shoot(s) ==
    /\ Spend("shots")
    /\ taken' = Append(taken, s)
    /\ rows' = Append(rows, RowsOf(s))
    /\ red' = TowerRed(s)
    /\ Write(Fitting(Named(s)))
    /\ UNCHANGED <<cleaner, updateVars>>

\* review_inspection: the person's verdict stands beside the station's.
Reviewed(r, verdict) == [r EXCEPT !.manual = verdict, !.review = FALSE]

Review(k, i, verdict) ==
    /\ Spend("reviews")
    /\ rows' = [rows EXCEPT ![k][i] = Reviewed(rows[k][i], verdict)]
    /\ UNCHANGED <<taken, red, retentionVars, updateVars>>

Person ==
    \/ \E s \in Menus[left.menu] : Shoot(s)
    \/ \E k \in DOMAIN rows : \E i \in DOMAIN rows[k], v \in {"OK", "NG"} : Review(k, i, v)

Cleanup ==
    /\ \/ Spend("days") /\ NewDay
       \/ Spend("cleanups") /\ WakeCleaner
       \/ \E fails \in BOOLEAN, unread \in SUBSET Buckets :
             May(fails \/ unread # {}) /\ CheckRoom(fails, unread)
       \/ \E stuck \in SUBSET (DOMAIN age) : May(stuck # {}) /\ Expire(stuck)
       \/ \E fails, unsorted \in BOOLEAN :
             May(fails \/ unsorted) /\ OpenBucket(fails, unsorted)
       \/ \E fails, sticks \in BOOLEAN : May(fails \/ sticks) /\ DropOne(fails, sticks)
    /\ UNCHANGED <<siteVars, updateVars>>

UpdateRequest ==
    /\ \/ \E unread \in BOOLEAN :
             \/ SpendMay("late", unread) /\ GetState(TRUE, unread)
             \/ May(unread) /\ GetState(FALSE, unread)
       \/ \E r \in settling, fails \in BOOLEAN : May(fails) /\ SettleWrites(r, fails)
       \/ \E misread, unread \in BOOLEAN :
             SpendMay("asks", misread \/ unread) /\ AskUpdate(misread, unread)
       \/ \E i \in Slots, fails \in BOOLEAN : May(fails) /\ StartScript(i, fails)
       \/ Spend("failures") /\ StartFails
       \/ Spend("checks") /\ CheckRemote
       \/ Spend("rollbacks") /\ Rollback
       \/ Spend("commits") /\ Publish
    /\ UNCHANGED <<siteVars, retentionVars>>

\* A build that makes something needs room.
RoomToBuild(i) == Makes(i) = {} \/ FreeRoom >= BuildRoom

Script(i) ==
    /\ \/ BeginScript(i) \/ Fetch(i) \/ Merge(i) \/ ScriptDone(i)
       \/ RoomToBuild(i) /\ Build(i)
    /\ UNCHANGED <<siteVars, retentionVars, left>>

ScriptFailure(i) ==
    /\ IF scripts[i].step = "build" /\ ~RoomToBuild(i)
       THEN UNCHANGED left ELSE Spend("failures")
    /\ ScriptFails(i)
    /\ UNCHANGED <<siteVars, retentionVars>>

Restart ==
    /\ \/ \E i \in Slots : ScriptRestarts(i) /\ UNCHANGED left
       \/ Spend("cuts") /\ ServiceRestarts
    /\ CleanerRestarts
    /\ UNCHANGED siteVars

Next ==
    \/ Person \/ Cleanup \/ UpdateRequest \/ Restart
    \/ \E i \in Slots : Script(i) \/ ScriptFailure(i)

Spec == Init /\ [][Next]_vars

-----------------------------------------------------------------------------
(* Properties *)

\* A tube nobody can tell anything of at the stage it is looked at, and one a
\* person would call bad.
Unmeasured(r, stage) ==
    \/ r.raises \in {"lens", "preprocess"}
    \/ SeesLength(stage) /\ r.raises \in {"gauge", "length"}
    \/ SeesSurface(stage) /\ r.raises = "surface"

BadTube(r, stage) ==
    \/ Unmeasured(r, stage)
    \/ SeesLength(stage) /\ r.length \notin {"within", "nearly out"}
    \/ SeesSurface(stage) /\ r.defects # {}

BadShot(s) ==
    \/ Detected(s) # s.expected
    \/ Several(s) /\ ~s.sure
    \/ ~IsCount(s) /\ \E i \in DOMAIN s.tubes : BadTube(s.tubes[i], s.stage)

RowsFrom(shots) == UNION {{k} \X DOMAIN rows[k] : k \in shots}
AllRows == [t \in RowsFrom(DOMAIN rows) |-> rows[t[1]][t[2]]]
AllTubes == RowsFrom({k \in DOMAIN rows : ~IsCount(taken[k])})

\* A bad tube does not slip through: its row says NG and asks for a person
\* when it could not be measured, the light is red, and its pictures are filed
\* with the bad ones.  This crosses run_once, inspect_batch and save_raw, which
\* each have a verdict of their own.
NothingSlipsThrough ==
    /\ \A k \in DOMAIN taken : BadShot(taken[k]) =>
          /\ k = Len(taken) => red
          /\ \A n \in DOMAIN age : n.shot = k => n.verdict = "NG"
    /\ \A k \in DOMAIN taken : ~IsCount(taken[k]) =>
          \A i \in DOMAIN rows[k] : BadTube(taken[k].tubes[i], taken[k].stage) =>
             /\ rows[k][i].final = "NG"
             /\ Unmeasured(taken[k].tubes[i], taken[k].stage)
                => rows[k][i].review \/ rows[k][i].manual # "none"

\* The two places that count agree: the defects of all work orders and of the
\* lots without one are the defects of the key figures, less what a person
\* found good, and with what a person found bad.  Rows that name an order the
\* MES does not know on a lot it does are in neither list of the MES (the
\* condition of unassigned_lots skips them).  And where no crate was counted,
\* the good tubes of an order are tubes of its own that are good, or that a
\* person found so.
FiguresAgree ==
    /\ LET unlisted == {i \in Sent(AllRows) :
               /\ AllRows[i].order \notin DOMAIN LotOf \cup {NoWorkOrder}
               /\ \E w \in DOMAIN LotOf : AllRows[i].lot = LotOf[w]}
           kpi == Summary(AllRows)
       IN  SumFunction([w \in DOMAIN LotOf |->
                          Production(AllRows, RecordsFor(AllRows, w)).defects])
             + Production(AllRows, Unassigned(AllRows)).defects
             + Production(AllRows, unlisted).defects
           = (kpi.defects + kpi.missed) - kpi.misjudged
    /\ \A w \in DOMAIN LotOf :
          LET mine == RecordsFor(AllRows, w)
              made == Production(AllRows, mine)
          IN  made.crates = 0 =>
                made.good <= Cardinality({t \in mine \cap AllTubes :
                    \/ rows[t[1]][t[2]].manual = "OK"
                    \/ ~BadTube(taken[t[1]].tubes[t[2]], taken[t[1]].stage)})

\* The result picture of a bad shot outlives its days, unless the disk is
\* short of room or its room cannot be read - and even then it goes only when
\* the cleanup has no original and no result of a good shot left on its list.
\* It deletes what is on the list, but for what it cannot list (a folder that
\* cannot be read), a bucket it cannot sort, a file it cannot delete, and what
\* is left of a bucket when it meets a moment with room.
NgGoesLast ==
    [][\A n \in DOMAIN age \ DOMAIN age' :
          (n.dir = "result" /\ BadShot(taken[n.shot]) /\ age[n] <= NgDays) =>
              /\ cleaner.step = "drop"
              /\ FreeRoom < MinFree \/ cleaner'.blind
              /\ \A m \in cleaner.items \cup cleaner.list :
                    m.dir = "review" \/ (m.dir = "result" /\ m.verdict = "NG")
      ]_vars

\* When an update is found to be a success, no part of the program differs
\* from the code, but for what some script gave up in its build (it ended
\* there, or had no tool for it), or is still making - unless two scripts have
\* run at the same time.  What was rolled back is made again, whichever version
\* was checked for meanwhile, and however late, or over which newer run, the
\* outcome is written (get_state, aivis-update.sh).
SuccessIsInstalled ==
    [][\A r \in settling' \ settling :
          r.state = "success" => gap' \subseteq unbuilt' \cup Building' \/ doubled'
      ]_vars
=============================================================================
