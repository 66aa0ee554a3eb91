-------------------------- MODULE BackgroundProofs --------------------------
(***************************************************************************)
(* Proofs about what works in the background, for any jobs, rows, events,  *)
(* processes and rates: ExportJobs (an export is complete), TraceRecorder  *)
(* (nothing accepted is lost), ChannelLimits (nothing is granted that was  *)
(* not earned) and FrequencyWindows (a window counts its sends).           *)
(***************************************************************************)
EXTENDS ExportJobs, TraceRecorder, ChannelLimits, FrequencyWindows, SequenceTheorems, FiniteSetTheorems, WellFoundedInduction, TLAPS

-----------------------------------------------------------------------------
(***************************************************************************)
(* ExportJobs.  The rows behind the last id of a run are those that were   *)
(* there when it began and are missing from its file: a page takes the     *)
(* smallest of them, and an empty page ends the run.                       *)
(***************************************************************************)
ExpRuns == [step : {"taken", "load", "begin", "open", "page", "aggregate", "flush", "fail", "finish"},
            kind : {"records", "failures"}, last : Nat, rows : SUBSET Nat, dead : BOOLEAN, bad : BOOLEAN]

ExportTypeOK ==
  /\ expRow \in SUBSET (Nat \ {0}) /\ IsFiniteSet(expRow)
  /\ expJob \in [ExpJobs -> {"none", "pending", "running", "failed", "success"}]
  /\ expRun \in [ExpJobs -> ExpRuns \cup {ExpIdle}]
  /\ expFile \in [ExpJobs -> SUBSET Nat] /\ expBase \in [ExpJobs -> SUBSET Nat]

UnderWay == {j \in ExpJobs : expRun[j] # ExpIdle}

SlotPerRun == IsFiniteSet(UnderWay) /\ expSlot = Cardinality(UnderWay)

(* What a run has: the records up to the last one it read; then all that   *)
(* there were when it began, in memory and at last in its file.            *)
RunHas(run, base, file) ==
  /\ run.step \in {"taken", "load", "begin", "open"} => run.last = 0
  /\ run.step \in {"open", "page"} => \A r \in base : r <= run.last => r \in run.rows
  /\ run.step = "open" /\ run.kind = "failures" => base = {}
  /\ run.step = "aggregate" => base = {}
  /\ run.step = "flush" => base \subseteq run.rows
  /\ run.step = "finish" => base \subseteq file

RunsHave ==
  \A j \in ExpJobs :
    /\ expBase[j] \subseteq expRow
    /\ expRun[j] # ExpIdle => expJob[j] # "success" /\ RunHas(expRun[j], expBase[j], expFile[j])

ExportInv == ExportTypeOK /\ SlotPerRun /\ RunsHave /\ SuccessIsComplete

-----------------------------------------------------------------------------
(* A finite set of naturals that is not empty has a least and a greatest   *)
(* element: strict inclusion of its finite subsets is well-founded.        *)
LEMMA SubsetMinimum ==
  ASSUME NEW S, NEW T, T \subseteq FiniteSubsetsOf(S), T # {}
  PROVE  \E x \in T : \A y \in T : ~(y \subseteq x /\ y # x)
<1>1. IsWellFoundedOn(StrictSubsetOrdering(S), FiniteSubsetsOf(S))
  BY FS_StrictSubsetOrderingWellFounded
<1>2. PICK x \in T : \A y \in T : ~(<<y, x>> \in StrictSubsetOrdering(S))
  BY <1>1, WFMin
<1>3. \A y \in T : y \in SUBSET S /\ x \in SUBSET S
  BY DEF FiniteSubsetsOf
<1>4. \A y \in T : y \subseteq x /\ y # x => <<y, x>> \in StrictSubsetOrdering(S)
  BY <1>3 DEF StrictSubsetOrdering
<1>5. \A y \in T : ~(y \subseteq x /\ y # x)
  BY <1>2, <1>4, Zenon
<1> QED BY <1>5, Zenon

LEMMA GreatestOfFinite ==
  ASSUME NEW S \in SUBSET Nat, IsFiniteSet(S), S # {} PROVE \E m \in S : \A n \in S : n <= m
<1> DEFINE above(n) == {k \in S : k > n}
<1>1. {above(n) : n \in S} \subseteq FiniteSubsetsOf(S) /\ {above(n) : n \in S} # {}
  <2>1. \A n \in S : above(n) \in SUBSET S /\ IsFiniteSet(above(n))
    BY FS_Subset
  <2> QED BY <2>1 DEF FiniteSubsetsOf
<1>2. PICK m \in S : \A n \in S : ~(above(n) \subseteq above(m) /\ above(n) # above(m))
  <2> DEFINE family == {above(n) : n \in S}
  <2>0. family \subseteq FiniteSubsetsOf(S) /\ family # {}
    BY <1>1
  <2> HIDE DEF above, family
  <2>1. PICK x \in family : \A y \in family : ~(y \subseteq x /\ y # x)
    BY <2>0, SubsetMinimum
  <2>2. PICK m \in S : x = above(m)
    BY Zenon DEF family
  <2>3. \A n \in S : above(n) \in family
    BY Zenon DEF family
  <2> QED BY <2>1, <2>2, <2>3, Zenon
<1>3. ASSUME NEW n \in S, n > m PROVE FALSE
  <2>1. n \in Nat /\ m \in Nat /\ n > m /\ \A k \in S : k \in Nat
    BY <1>3
  <2>2. n \in above(m)
    BY <2>1
  <2>3. n \notin above(n)
    BY <2>1
  <2>4. above(n) \subseteq above(m)
    <3>1. \A k \in S : k > n => k > m
      BY <2>1
    <3> QED BY <3>1, Zenon
  <2> QED BY <1>2, <2>2, <2>3, <2>4
<1> QED BY <1>3

LEMMA LeastOfFinite ==
  ASSUME NEW S \in SUBSET Nat, IsFiniteSet(S), S # {} PROVE \E m \in S : \A n \in S : m <= n
<1> DEFINE below(n) == {k \in S : k < n}
<1>1. {below(n) : n \in S} \subseteq FiniteSubsetsOf(S) /\ {below(n) : n \in S} # {}
  <2>1. \A n \in S : below(n) \in SUBSET S /\ IsFiniteSet(below(n))
    BY FS_Subset
  <2> QED BY <2>1 DEF FiniteSubsetsOf
<1>2. PICK m \in S : \A n \in S : ~(below(n) \subseteq below(m) /\ below(n) # below(m))
  <2> DEFINE family == {below(n) : n \in S}
  <2>0. family \subseteq FiniteSubsetsOf(S) /\ family # {}
    BY <1>1
  <2> HIDE DEF below, family
  <2>1. PICK x \in family : \A y \in family : ~(y \subseteq x /\ y # x)
    BY <2>0, SubsetMinimum
  <2>2. PICK m \in S : x = below(m)
    BY Zenon DEF family
  <2>3. \A n \in S : below(n) \in family
    BY Zenon DEF family
  <2> QED BY <2>1, <2>2, <2>3, Zenon
<1>3. ASSUME NEW n \in S, n < m PROVE FALSE
  <2>1. n \in Nat /\ m \in Nat /\ n < m /\ \A k \in S : k \in Nat
    BY <1>3
  <2>2. n \in below(m)
    BY <2>1
  <2>3. n \notin below(n)
    BY <2>1
  <2>4. below(n) \subseteq below(m)
    <3>1. \A k \in S : k < n => k < m
      BY <2>1
    <3> QED BY <3>1, Zenon
  <2> QED BY <1>2, <2>2, <2>3, <2>4
<1> QED BY <1>3

(* A page that is empty ends the walk, and one that is not leaves out no   *)
(* id up to its last.                                                      *)
LEMMA PageIsNext ==
  ASSUME expRow \in SUBSET (Nat \ {0}), IsFiniteSet(expRow), NEW last \in Nat
  PROVE  /\ NextPage(last) \subseteq Later(last) /\ NextPage(last) \in SUBSET Nat
         /\ NextPage(last) = {} => \A r \in expRow : r <= last
         /\ NextPage(last) # {} => LastID(NextPage(last), last) \in Nat
         /\ NextPage(last) # {} =>
              \A r \in expRow : r <= LastID(NextPage(last), last) => r <= last \/ r \in NextPage(last)
<1>1. Later(last) \in SUBSET Nat /\ IsFiniteSet(Later(last))
  BY FS_Subset DEF Later
<1> DEFINE before(r) == {q \in Later(last) : q < r}
<1>2. \A r \in Later(last) : IsFiniteSet(before(r)) /\ Cardinality(before(r)) \in Nat
  BY <1>1, FS_Subset, FS_CardinalityType
<1>3. NextPage(last) \subseteq Later(last) /\ NextPage(last) \in SUBSET Nat /\ IsFiniteSet(NextPage(last))
  BY <1>1, FS_Subset DEF NextPage
<1>4. ASSUME NextPage(last) = {} PROVE \A r \in expRow : r <= last
  <2>1. CASE Later(last) # {}
    <3>1. PICK m \in Later(last) : \A n \in Later(last) : m <= n
      BY <1>1, <2>1, LeastOfFinite
    <3>2. before(m) = {}
      BY <1>1, <3>1
    <3>3. Cardinality(before(m)) = 0
      BY <3>2, FS_EmptySet
    <3>4. 0 < ExpBatch
      BY ExportAssumption
    <3>5. m \in NextPage(last)
      BY <3>3, <3>4 DEF NextPage
    <3> QED BY <1>4, <3>5
  <2>2. CASE Later(last) = {}
    BY <2>2 DEF Later
  <2> QED BY <2>1, <2>2
<1>5. ASSUME NextPage(last) # {}
      PROVE  /\ LastID(NextPage(last), last) \in Nat
             /\ \A r \in expRow : r <= LastID(NextPage(last), last) => r <= last \/ r \in NextPage(last)
  <2> DEFINE m == LastID(NextPage(last), last)
  <2>1. \E x \in NextPage(last) : \A y \in NextPage(last) : x >= y
    <3>1. PICK x \in NextPage(last) : \A y \in NextPage(last) : y <= x
      BY <1>3, <1>5, GreatestOfFinite
    <3> QED BY <1>3, <3>1
  <2>2. m \in NextPage(last)
    BY <1>5, <2>1 DEF LastID, Max
  <2> HIDE DEF m
  <2>3. m \in Nat /\ m \in Later(last) /\ Cardinality(before(m)) < ExpBatch
    BY <1>3, <2>2 DEF NextPage
  <2>4. ASSUME NEW r \in expRow, r <= m, ~(r <= last) PROVE r \in NextPage(last)
    <3>1. r \in Later(last) /\ r \in Nat
      BY <2>4 DEF Later
    <3>2. before(r) \in SUBSET before(m)
      BY <1>1, <2>3, <2>4, <3>1
    <3>3. Cardinality(before(r)) <= Cardinality(before(m))
      BY <1>2, <2>3, <3>2, FS_Subset
    <3>4. Cardinality(before(r)) < ExpBatch
      BY <1>2, <2>3, <3>1, <3>3, ExportAssumption
    <3> QED BY <3>1, <3>4 DEF NextPage
  <2> QED BY <2>3, <2>4 DEF m
<1> QED BY <1>3, <1>4, <1>5

-----------------------------------------------------------------------------
LEMMA RunIsNotIdle == ExpIdle \notin ExpRuns /\ ExpIdle.step = "idle"
BY DEF ExpIdle, ExpRuns

LEMMA ExportInitInv == ExportInit => ExportInv
<1> SUFFICES ASSUME ExportInit PROVE ExportInv
  OBVIOUS
<1>1. ExportTypeOK
  BY FS_EmptySet DEF ExportInit, ExportTypeOK
<1>2. UnderWay = {}
  BY DEF ExportInit, UnderWay
<1> QED BY <1>1, <1>2, FS_EmptySet DEF ExportInit, ExportInv, SlotPerRun, RunsHave, SuccessIsComplete

(* A run goes on: its job is not yet marked "success".                     *)
LEMMA RunGoesOn ==
  ASSUME ExportInv, NEW j \in ExpJobs, NEW run \in ExpRuns, expRun[j] # ExpIdle,
         NEW status \in {"none", "pending", "running", "failed"}, NEW base \in SUBSET expRow, NEW file \in SUBSET Nat,
         expRun' = [expRun EXCEPT ![j] = run], UNCHANGED <<expRow, expSlot>>,
         expJob' = [expJob EXCEPT ![j] = status], expBase' = [expBase EXCEPT ![j] = base],
         expFile' = [expFile EXCEPT ![j] = file], RunHas(run, base, file)
  PROVE  ExportInv'
<1> USE DEF ExportInv
<1>1. ExportTypeOK'
  BY DEF ExportTypeOK
<1>2. \A i \in ExpJobs :
        IF i = j THEN expRun'[i] = run /\ expJob'[i] = status /\ expBase'[i] = base /\ expFile'[i] = file
        ELSE expRun'[i] = expRun[i] /\ expJob'[i] = expJob[i] /\ expBase'[i] = expBase[i] /\ expFile'[i] = expFile[i]
  BY DEF ExportTypeOK
<1>3. UnderWay' = UnderWay
  BY <1>2, RunIsNotIdle DEF UnderWay
<1>4. SlotPerRun'
  BY <1>3 DEF SlotPerRun
<1>5. RunsHave'
  BY <1>2 DEF RunsHave
<1>6. SuccessIsComplete'
  BY <1>2 DEF SuccessIsComplete
<1> QED BY <1>1, <1>4, <1>5, <1>6

(* A run ends and puts its slot back.                                      *)
LEMMA RunEnds ==
  ASSUME ExportInv, NEW j \in ExpJobs, expRun[j] # ExpIdle, Release(j), UNCHANGED <<expRow, expFile, expBase>>,
         NEW status \in {"none", "pending", "running", "failed", "success"}, expJob' = [expJob EXCEPT ![j] = status],
         status = "success" => expBase[j] \subseteq expFile[j]
  PROVE  ExportInv'
<1> USE DEF ExportInv
<1>1. ExportTypeOK'
  BY DEF ExportTypeOK, Release
<1>2. \A i \in ExpJobs :
        IF i = j THEN expRun'[i] = ExpIdle /\ expJob'[i] = status
        ELSE expRun'[i] = expRun[i] /\ expJob'[i] = expJob[i]
  BY DEF ExportTypeOK, Release
<1>3. UnderWay' = UnderWay \ {j} /\ j \in UnderWay
  BY <1>2 DEF UnderWay
<1>4. SlotPerRun'
  BY <1>3, FS_RemoveElement DEF SlotPerRun, Release
<1>5. RunsHave'
  BY <1>2 DEF RunsHave
<1>6. SuccessIsComplete'
  BY <1>2 DEF SuccessIsComplete
<1> QED BY <1>1, <1>4, <1>5, <1>6

LEMMA SameAt ==
  ASSUME ExportTypeOK, NEW j \in ExpJobs
  PROVE  /\ expJob = [expJob EXCEPT ![j] = expJob[j]] /\ expFile = [expFile EXCEPT ![j] = expFile[j]]
         /\ expBase = [expBase EXCEPT ![j] = expBase[j]]
BY DEF ExportTypeOK

(* What a run that is under way is, and what it has.                       *)
LEMMA RunIs ==
  ASSUME ExportInv, NEW j \in ExpJobs, expRun[j].step # "idle"
  PROVE  /\ expRun[j] # ExpIdle /\ expRun[j] \in ExpRuns
         /\ expJob[j] \in {"none", "pending", "running", "failed"}
         /\ expBase[j] \in SUBSET expRow /\ expFile[j] \in SUBSET Nat
         /\ RunHas(expRun[j], expBase[j], expFile[j])
         /\ \A n \in expRow : n \in Nat /\ n > 0
<1>1. expRun[j] # ExpIdle /\ expRun[j] \in ExpRuns
  BY RunIsNotIdle DEF ExportInv, ExportTypeOK
<1>2. /\ expJob[j] \in {"none", "pending", "running", "failed", "success"} /\ expFile[j] \in SUBSET Nat
      /\ \A n \in expRow : n \in Nat /\ n > 0
  BY DEF ExportInv, ExportTypeOK
<1> QED BY <1>1, <1>2 DEF ExportInv, RunsHave

LEMMA ExpStepTakeSlot ==
  ASSUME ExportInv, NEW j \in ExpJobs, NEW kind \in {"records", "failures"}, ExpTakeSlot(j, kind)
  PROVE  ExportInv'
<1> USE DEF ExportInv
<1> DEFINE run == [ExpRunning("taken") EXCEPT !.kind = kind]
<1>1. /\ run \in ExpRuns /\ run.step = "taken" /\ run.last = 0
  BY DEF ExpRunning, ExpRuns
<1>2. /\ expJob[j] = "none" /\ expRun[j] = ExpIdle /\ expSlot' = expSlot + 1
      /\ expRun' = [expRun EXCEPT ![j] = run] /\ UNCHANGED <<expRow, expJob, expFile, expBase>>
  BY DEF ExpTakeSlot
<1> HIDE DEF run
<1>3. ExportTypeOK'
  BY <1>1, <1>2 DEF ExportTypeOK
<1>4. \A i \in ExpJobs : expRun'[i] = IF i = j THEN run ELSE expRun[i]
  BY <1>2 DEF ExportTypeOK
<1>5. UnderWay' = UnderWay \cup {j} /\ j \notin UnderWay
  BY <1>1, <1>2, <1>4, RunIsNotIdle DEF UnderWay
<1>6. SlotPerRun'
  BY <1>2, <1>5, FS_AddElement DEF SlotPerRun
<1>7. RunsHave'
  BY <1>1, <1>2, <1>4 DEF RunsHave, RunHas
<1> QED BY <1>2, <1>3, <1>6, <1>7 DEF SuccessIsComplete

LEMMA ExpStepEnd ==
  ASSUME ExportInv, NEW j \in ExpJobs, ExpRefuse(j) \/ ExpLoadFails(j) \/ ExpFail(j) \/ ExpFinish(j)
  PROVE  ExportInv'
<1>1. expRun[j].step # "idle" /\ Release(j) /\ UNCHANGED <<expRow, expFile, expBase>>
  BY DEF ExpRefuse, ExpLoadFails, ExpFail, ExpFinish, ExpAt
<1>2. /\ expRun[j] # ExpIdle /\ expRun[j] \in ExpRuns
      /\ expJob[j] \in {"none", "pending", "running", "failed"}
      /\ expBase[j] \in SUBSET expRow /\ expFile[j] \in SUBSET Nat
      /\ RunHas(expRun[j], expBase[j], expFile[j])
      /\ \A n \in expRow : n \in Nat /\ n > 0
  BY <1>1, RunIs
<1>3. expJob = [expJob EXCEPT ![j] = expJob[j]]
  BY SameAt DEF ExportInv
<1>4. CASE ExpRefuse(j) \/ ExpLoadFails(j)
  BY <1>1, <1>2, <1>3, <1>4, RunEnds DEF ExpRefuse, ExpLoadFails
<1>5. CASE ExpFail(j)
  <2>1. expJob' = [expJob EXCEPT ![j] = "failed"] \/ expJob' = [expJob EXCEPT ![j] = expJob[j]]
    BY <1>3, <1>5 DEF ExpFail, ExpMark
  <2> QED BY <1>1, <1>2, <2>1, RunEnds
<1>6. CASE ExpFinish(j)
  <2>1. expJob' = [expJob EXCEPT ![j] = "success"] \/ expJob' = [expJob EXCEPT ![j] = expJob[j]]
    BY <1>3, <1>6 DEF ExpFinish, ExpMark
  <2>2. expBase[j] \subseteq expFile[j]
    BY <1>2, <1>6 DEF ExpFinish, ExpAt, RunHas
  <2> QED BY <1>1, <1>2, <2>1, <2>2, RunEnds
<1> QED BY <1>4, <1>5, <1>6

(* Steps by which a run goes on, one by one; what they leave alone is      *)
(* written as a change to what it was.                                     *)
LEMMA ExpStepOn ==
  ASSUME ExportInv, NEW j \in ExpJobs,
         \/ ExpTimeout(j) \/ ExpInsert(j) \/ ExpLoad(j) \/ ExpBegin(j) \/ ExpOpen(j) \/ ExpAggregate(j)
         \/ ExpDiskFull(j) \/ ExpFlush(j) \/ ExpStepFails(j)
  PROVE  ExportInv'
<1> DEFINE old == expRun[j]
<1>1. old.step # "idle" /\ UNCHANGED <<expRow, expSlot>>
  BY DEF ExpTimeout, ExpInsert, ExpLoad, ExpBegin, ExpOpen, ExpAggregate, ExpDiskFull, ExpFlush, ExpStepFails, ExpAt
<1>2. /\ expRun[j] # ExpIdle /\ expRun[j] \in ExpRuns
      /\ expJob[j] \in {"none", "pending", "running", "failed"}
      /\ expBase[j] \in SUBSET expRow /\ expFile[j] \in SUBSET Nat
      /\ RunHas(expRun[j], expBase[j], expFile[j])
      /\ \A n \in expRow : n \in Nat /\ n > 0
  BY <1>1, RunIs
<1>3. /\ expJob = [expJob EXCEPT ![j] = expJob[j]] /\ expFile = [expFile EXCEPT ![j] = expFile[j]]
      /\ expBase = [expBase EXCEPT ![j] = expBase[j]]
  BY SameAt DEF ExportInv
<1>4. \A step \in {"load", "begin", "open", "page", "aggregate", "flush", "fail", "finish"} :
        LET run == [old EXCEPT !.step = step] IN
        /\ run \in ExpRuns /\ run.step = step /\ run.last = old.last /\ run.rows = old.rows /\ run.kind = old.kind
  BY <1>2 DEF ExpRuns
<1>5. CASE ExpTimeout(j) \/ ExpDiskFull(j)
  <2>1. \E run \in {[old EXCEPT !.dead = TRUE], [old EXCEPT !.bad = TRUE]} : expRun' = [expRun EXCEPT ![j] = run]
    BY <1>5 DEF ExpTimeout, ExpDiskFull
  <2>2. PICK run \in ExpRuns :
          /\ expRun' = [expRun EXCEPT ![j] = run] /\ run.step = old.step /\ run.last = old.last
          /\ run.rows = old.rows /\ run.kind = old.kind
    BY <1>2, <2>1 DEF ExpRuns
  <2>3. RunHas(run, expBase[j], expFile[j])
    BY <1>2, <2>2 DEF RunHas
  <2>4. UNCHANGED <<expJob, expFile, expBase>>
    BY <1>5 DEF ExpTimeout, ExpDiskFull
  <2> QED BY <1>1, <1>2, <1>3, <2>2, <2>3, <2>4, RunGoesOn
<1>6. CASE ExpInsert(j) \/ ExpLoad(j)
  <2>1. PICK step \in {"load", "begin"} : expRun' = [expRun EXCEPT ![j] = [old EXCEPT !.step = step]]
    BY <1>6 DEF ExpInsert, ExpLoad
  <2>2. RunHas([old EXCEPT !.step = step], expBase[j], expFile[j])
    BY <1>2, <1>4, <1>6 DEF RunHas, ExpInsert, ExpLoad, ExpAt
  <2>3. UNCHANGED <<expFile, expBase>>
        /\ (expJob' = [expJob EXCEPT ![j] = "pending"] \/ expJob' = [expJob EXCEPT ![j] = expJob[j]])
    BY <1>3, <1>6 DEF ExpInsert, ExpLoad
  <2> DEFINE run == [old EXCEPT !.step = step]
  <2>9. run \in ExpRuns
    BY <1>4, <2>1
  <2> HIDE DEF run
  <2>10. expRun' = [expRun EXCEPT ![j] = run]
    BY <2>1 DEF run
  <2>11. RunHas(run, expBase[j], expFile[j])
    BY <2>2 DEF run
  <2>12. /\ expFile' = [expFile EXCEPT ![j] = expFile[j]] /\ expBase' = [expBase EXCEPT ![j] = expBase[j]]
    BY <1>3, <2>3
  <2>13. CASE expJob' = [expJob EXCEPT ![j] = "pending"]
    BY <1>1, <1>2, <2>12, <2>13, <2>9, <2>10, <2>11, RunGoesOn
  <2>14. CASE expJob' = [expJob EXCEPT ![j] = expJob[j]]
    BY <1>1, <1>2, <2>12, <2>14, <2>9, <2>10, <2>11, RunGoesOn
  <2> QED BY <2>3, <2>13, <2>14
<1>7. CASE ExpBegin(j)
  <2> DEFINE base == IF old.kind = "records" THEN expRow ELSE {}
  <2>1. /\ expRun' = [expRun EXCEPT ![j] = [old EXCEPT !.step = "open"]] /\ old.step = "begin"
        /\ UNCHANGED expFile /\ expBase' = [expBase EXCEPT ![j] = base]
        /\ (expJob' = [expJob EXCEPT ![j] = "running"] \/ expJob' = [expJob EXCEPT ![j] = expJob[j]])
    BY <1>3, <1>7 DEF ExpBegin, ExpAt
  <2>2. base \in SUBSET expRow /\ (old.kind = "failures" => base = {})
    OBVIOUS
  <2>3. \A r \in base : ~(r <= 0)
    BY <1>2, <2>2
  <2> HIDE DEF base
  <2>4. RunHas([old EXCEPT !.step = "open"], base, expFile[j])
    BY <1>2, <1>4, <2>1, <2>2, <2>3 DEF RunHas
  <2> DEFINE run == [old EXCEPT !.step = "open"]
  <2>9. run \in ExpRuns
    BY <1>4, <2>1
  <2> HIDE DEF run
  <2>10. expRun' = [expRun EXCEPT ![j] = run]
    BY <2>1 DEF run
  <2>11. RunHas(run, base, expFile[j])
    BY <2>4 DEF run
  <2> QED BY <1>1, <1>2, <1>3, <2>1, <2>2, <2>4, <2>9, <2>10, <2>11, RunGoesOn
<1>8. CASE ExpOpen(j)
  <2>1. PICK step \in {"page", "aggregate"} :
          /\ expRun' = [expRun EXCEPT ![j] = [old EXCEPT !.step = step]]
          /\ step = "aggregate" => old.kind # "records"
    BY <1>8 DEF ExpOpen
  <2>2. old.step = "open" /\ old.kind \in {"records", "failures"}
        /\ expFile' = [expFile EXCEPT ![j] = {}] /\ UNCHANGED <<expJob, expBase>>
    BY <1>2, <1>8 DEF ExpOpen, ExpAt, ExpRuns
  <2>3. RunHas([old EXCEPT !.step = step], expBase[j], {})
    BY <1>2, <1>4, <2>1, <2>2 DEF RunHas
  <2> DEFINE run == [old EXCEPT !.step = step]
  <2>9. run \in ExpRuns
    BY <1>4, <2>1
  <2> HIDE DEF run
  <2>10. expRun' = [expRun EXCEPT ![j] = run]
    BY <2>1 DEF run
  <2>11. RunHas(run, expBase[j], {})
    BY <2>3 DEF run
  <2>12. /\ expJob' = [expJob EXCEPT ![j] = expJob[j]] /\ expBase' = [expBase EXCEPT ![j] = expBase[j]]
         /\ expFile' = [expFile EXCEPT ![j] = {}] /\ {} \in SUBSET Nat
    BY <1>3, <2>2
  <2> QED BY <1>1, <1>2, <2>12, <2>9, <2>10, <2>11, RunGoesOn
<1>9. CASE ExpAggregate(j) \/ ExpStepFails(j)
  <2>1. PICK step \in {"flush", "fail"} :
          /\ expRun' = [expRun EXCEPT ![j] = [old EXCEPT !.step = step]]
          /\ step = "flush" => old.step = "aggregate"
    BY <1>9 DEF ExpAggregate, ExpStepFails, ExpAt
  <2>2. RunHas([old EXCEPT !.step = step], expBase[j], expFile[j])
    BY <1>2, <1>4, <2>1 DEF RunHas
  <2>3. UNCHANGED <<expJob, expFile, expBase>>
    BY <1>9 DEF ExpAggregate, ExpStepFails
  <2> DEFINE run == [old EXCEPT !.step = step]
  <2>9. run \in ExpRuns
    BY <1>4, <2>1
  <2> HIDE DEF run
  <2>10. expRun' = [expRun EXCEPT ![j] = run]
    BY <2>1 DEF run
  <2>11. RunHas(run, expBase[j], expFile[j])
    BY <2>2 DEF run
  <2>12. /\ expFile' = [expFile EXCEPT ![j] = expFile[j]] /\ expBase' = [expBase EXCEPT ![j] = expBase[j]]
         /\ expJob' = [expJob EXCEPT ![j] = expJob[j]]
    BY <1>3, <2>3
  <2> QED BY <1>1, <1>2, <2>3, <2>12, <2>9, <2>10, <2>11, RunGoesOn
<1>10. CASE ExpFlush(j)
  <2> DEFINE file == IF old.bad THEN {} ELSE old.rows
             step == IF ~old.bad THEN "finish" ELSE "fail"
  <2>1. /\ expRun' = [expRun EXCEPT ![j] = [old EXCEPT !.step = step]] /\ old.step = "flush"
        /\ expFile' = [expFile EXCEPT ![j] = file] /\ UNCHANGED <<expJob, expBase>>
    BY <1>10 DEF ExpFlush, Flushed, ExpAt
  <2>2. file \in SUBSET Nat /\ step \in {"finish", "fail"} /\ (step = "finish" => file = old.rows)
    BY <1>2 DEF ExpRuns
  <2> HIDE DEF file, step
  <2>3. RunHas([old EXCEPT !.step = step], expBase[j], file)
    BY <1>2, <1>4, <2>1, <2>2 DEF RunHas
  <2> DEFINE run == [old EXCEPT !.step = step]
  <2>9. run \in ExpRuns
    BY <1>4, <2>1, <2>2
  <2> HIDE DEF run
  <2>10. expRun' = [expRun EXCEPT ![j] = run]
    BY <2>1 DEF run
  <2>11. RunHas(run, expBase[j], file)
    BY <2>3 DEF run
  <2> QED BY <1>1, <1>2, <1>3, <2>1, <2>2, <2>3, <2>9, <2>10, <2>11, RunGoesOn
<1> QED BY <1>5, <1>6, <1>7, <1>8, <1>9, <1>10

LEMMA ExpStepPage == ASSUME ExportInv, NEW j \in ExpJobs, ExpPage(j) PROVE ExportInv'
<1> DEFINE old == expRun[j]
           page == NextPage(old.last)
           run == IF page = {} THEN [old EXCEPT !.step = "flush"]
                  ELSE [old EXCEPT !.rows = @ \cup page, !.last = LastID(page, old.last)]
<1>1. old.step = "page" /\ UNCHANGED <<expRow, expJob, expFile, expSlot, expBase>>
      /\ expRun' = [expRun EXCEPT ![j] = run]
  BY DEF ExpPage, ExpAt
<1>2. /\ expRun[j] # ExpIdle /\ expRun[j] \in ExpRuns
      /\ expJob[j] \in {"none", "pending", "running", "failed"}
      /\ expBase[j] \in SUBSET expRow /\ expFile[j] \in SUBSET Nat
      /\ RunHas(expRun[j], expBase[j], expFile[j])
      /\ \A n \in expRow : n \in Nat /\ n > 0
  BY <1>1, RunIs
<1>3. /\ expJob = [expJob EXCEPT ![j] = expJob[j]] /\ expFile = [expFile EXCEPT ![j] = expFile[j]]
      /\ expBase = [expBase EXCEPT ![j] = expBase[j]]
  BY SameAt DEF ExportInv
<1>4. old.last \in Nat /\ old.rows \in SUBSET Nat
  BY <1>2 DEF ExpRuns
<1>5. /\ page \subseteq Later(old.last) /\ page \in SUBSET Nat
      /\ page = {} => \A r \in expRow : r <= old.last
      /\ page # {} => LastID(page, old.last) \in Nat
      /\ page # {} => \A r \in expRow : r <= LastID(page, old.last) => r <= old.last \/ r \in page
  BY <1>4, PageIsNext DEF ExportInv, ExportTypeOK
<1> HIDE DEF page
<1>6. run \in ExpRuns /\ RunHas(run, expBase[j], expFile[j])
  <2>1. CASE page = {}
    <3>1. run \in ExpRuns /\ run.step = "flush" /\ run.rows = old.rows
      BY <1>2, <2>1 DEF ExpRuns
    <3> QED BY <1>1, <1>2, <1>5, <2>1, <3>1 DEF RunHas
  <2>2. CASE page # {}
    <3>1. run \in ExpRuns /\ run.step = "page" /\ run.rows = old.rows \cup page /\ run.last = LastID(page, old.last)
      BY <1>1, <1>2, <1>4, <1>5, <2>2 DEF ExpRuns
    <3> QED BY <1>1, <1>2, <1>5, <2>2, <3>1 DEF RunHas
  <2> QED BY <2>1, <2>2
<1> HIDE DEF run
<1> QED BY <1>1, <1>2, <1>3, <1>6, RunGoesOn

(* A record is inserted; a restart takes every run and every slot away.    *)
LEMMA ExpStepRecord == ASSUME ExportInv, NEW r \in ExpRecords, ExpRecord(r) PROVE ExportInv'
<1>1. expRow' = expRow \cup {r} /\ UNCHANGED <<expJob, expRun, expFile, expSlot, expBase>>
  BY DEF ExpRecord, expJobVars
<1>2. IsFiniteSet(expRow') /\ expRow' \in SUBSET (Nat \ {0})
  <2>1. IsFiniteSet(expRow) /\ expRow \in SUBSET (Nat \ {0})
    BY DEF ExportInv, ExportTypeOK
  <2>2. r \in Nat \ {0}
    BY ExportAssumption
  <2>3. IsFiniteSet(expRow \cup {r})
    BY <2>1, FS_AddElement
  <2> QED BY <1>1, <2>1, <2>2, <2>3
<1>3. ExportTypeOK'
  BY <1>1, <1>2 DEF ExportInv, ExportTypeOK
<1>4. SlotPerRun' /\ SuccessIsComplete'
  BY <1>1 DEF ExportInv, SlotPerRun, UnderWay, SuccessIsComplete
<1>5. RunsHave'
  BY <1>1 DEF ExportInv, RunsHave
<1> QED BY <1>3, <1>4, <1>5 DEF ExportInv

LEMMA ExpStepRestart == ASSUME ExportInv, ExpRestart PROVE ExportInv'
<1>1. /\ expRun' = [j \in ExpJobs |-> ExpIdle] /\ expSlot' = 0
      /\ UNCHANGED <<expRow, expJob, expFile, expBase>>
  BY DEF ExpRestart
<1>2. UnderWay' = {}
  BY <1>1 DEF UnderWay
<1>3. SlotPerRun'
  BY <1>1, <1>2, FS_EmptySet DEF SlotPerRun
<1>4. ExportTypeOK'
  BY <1>1 DEF ExportInv, ExportTypeOK
<1>5. RunsHave' /\ SuccessIsComplete'
  BY <1>1 DEF ExportInv, RunsHave, SuccessIsComplete
<1> QED BY <1>3, <1>4, <1>5 DEF ExportInv

LEMMA ExportStep == ExportInv /\ [ExportNext]_exportVars => ExportInv'
<1> SUFFICES ASSUME ExportInv, [ExportNext]_exportVars PROVE ExportInv'
  OBVIOUS
<1>1. CASE UNCHANGED exportVars
  <2>1. UNCHANGED <<expRow, expJob, expRun, expFile, expSlot, expBase>>
    BY <1>1 DEF exportVars, expJobVars
  <2> QED BY <2>1 DEF ExportInv, ExportTypeOK, SlotPerRun, UnderWay, RunsHave, SuccessIsComplete
<1> QED BY <1>1, ExpStepTakeSlot, ExpStepEnd, ExpStepOn, ExpStepPage, ExpStepRecord, ExpStepRestart
     DEF ExportNext, ExpGo

(* An export of records that is marked a success has in its file every      *)
(* record that was there when it began, and no slot stays taken when no     *)
(* request and no goroutine is under way, whatever failed and restarted.    *)
THEOREM ExportsAreComplete == ExportSpec => []ExportsHold
<1>1. ASSUME ExportInv, \A j \in ExpJobs : expRun[j] = ExpIdle PROVE expSlot = 0
  <2>1. UnderWay = {}
    BY <1>1 DEF UnderWay
  <2> QED BY <1>1, <2>1, FS_EmptySet DEF ExportInv, SlotPerRun
<1>2. ExportInv => ExportsHold
  BY <1>1 DEF ExportInv, ExportsHold, SlotsReturn
<1> QED BY <1>2, ExportInitInv, ExportStep, PTL DEF ExportSpec

-----------------------------------------------------------------------------
(***************************************************************************)
(* TraceRecorder.  The events accepted are in the channel, in the batch at *)
(* hand or in the table; the channel is closed after the last handler has  *)
(* returned, and the loop ends only when channel and batch are empty.      *)
(***************************************************************************)
TraceTypeOK ==
  /\ trcChan \in Seq(Nat) /\ trcHand \in Seq(Nat) /\ trcRows \in Seq(Nat) /\ Len(trcHand) <= 1
  /\ trcClosed \in BOOLEAN /\ trcCount \in Nat /\ trcBusy \subseteq TrcHandlers /\ trcKept \subseteq Nat

(* Close comes when the consumers have returned, and no handler begins     *)
(* after that.                                                             *)
Closing ==
  /\ trcMain \in {"run", "stopping", "closing", "ended", "failed"}
  /\ trcLoop \in {"run", "drain", "gone"}
  /\ trcClosed => trcMain \in {"closing", "ended"}
  /\ trcMain \in {"closing", "ended"} => trcClosed
  /\ trcClosed => trcBusy = {}
  /\ trcLoop # "run" => trcClosed
  /\ trcLoop = "gone" => trcChan = <<>> /\ trcHand = <<>>
  /\ trcMain = "ended" => trcLoop = "gone"

(* An event that entered the buffer is in it, being written, written, or   *)
(* its insertion failed.                                                   *)
Accounted == trcKept = ToSet(trcRows) \cup trcFailed \cup ToSet(trcHand) \cup ToSet(trcChan)

Ordered(s) == \A i, j \in DOMAIN s : i < j => s[i] < s[j]
Before(s, t) == \A i \in DOMAIN s, j \in DOMAIN t : s[i] < t[j]

InOrder ==
  /\ Ordered(trcRows) /\ Ordered(trcChan)
  /\ Before(trcRows, trcHand) /\ Before(trcRows, trcChan) /\ Before(trcHand, trcChan)
  /\ \A i \in DOMAIN trcRows : trcRows[i] <= trcCount
  /\ \A i \in DOMAIN trcHand : trcHand[i] <= trcCount
  /\ \A i \in DOMAIN trcChan : trcChan[i] <= trcCount

TraceInv == TraceTypeOK /\ Closing /\ Accounted /\ InOrder

LEMMA TraceInitInv == TraceInit => TraceInv
<1> SUFFICES ASSUME TraceInit PROVE TraceInv
  OBVIOUS
<1>1. TraceTypeOK
  <2>1. <<>> \in Seq(Nat) /\ Len(<<>>) = 0
    BY EmptySeq
  <2>2. /\ trcChan \in Seq(Nat) /\ trcHand \in Seq(Nat) /\ trcRows \in Seq(Nat)
        /\ Len(trcHand) = 0
    BY <2>1, Zenon DEF TraceInit
  <2>3. /\ trcClosed \in BOOLEAN /\ trcCount \in Nat /\ trcBusy \subseteq TrcHandlers
        /\ trcKept \subseteq Nat
    BY DEF TraceInit
  <2>4. Len(trcHand) <= 1
    BY <2>2
  <2> QED BY <2>2, <2>3, <2>4, Zenon DEF TraceTypeOK
<1>2. Closing
  BY DEF TraceInit, Closing
<1>3. Accounted
  BY DEF TraceInit, Accounted, ToSet
<1>4. InOrder
  BY DEF TraceInit, InOrder, Ordered, Before
<1> QED BY <1>1, <1>2, <1>3, <1>4 DEF TraceInv

LEMMA SeqOfAtMostOne ==
  ASSUME NEW s \in Seq(Nat), s # <<>>, Len(s) <= 1 PROVE \E e \in Nat : s = <<e>>
<1>0. Len(s) \in Nat \ {0}
  BY EmptySeq, Zenon
<1>1. \A n \in Nat \ {0} : n <= 1 => n = 1
  OBVIOUS
<1>5. Len(s) = 1
  BY <1>0, <1>1, Zenon
<1>2. s[1] \in Nat
  BY <1>5, ElementOfSeq
<1>3. <<s[1]>> \in Seq(Nat) /\ Len(<<s[1]>>) = 1 /\ <<s[1]>>[1] = s[1]
  BY <1>2
<1>4. s = <<s[1]>>
  BY <1>5, <1>3, SeqEqual
<1> QED BY <1>2, <1>4

LEMMA ToSetAppend ==
  ASSUME NEW s \in Seq(Nat), NEW e \in Nat PROVE ToSet(Append(s, e)) = ToSet(s) \cup {e}
<1>1. \A x \in ToSet(Append(s, e)) : x \in ToSet(s) \cup {e}
  BY DEF ToSet
<1>2. ASSUME NEW x \in ToSet(s) PROVE x \in ToSet(Append(s, e))
  <2>1. PICK i \in DOMAIN s : x = s[i]
    BY DEF ToSet
  <2>2. i \in DOMAIN Append(s, e) /\ Append(s, e)[i] = x
    BY <2>1
  <2> QED BY <2>2 DEF ToSet
<1>3. Len(s) + 1 \in DOMAIN Append(s, e) /\ Append(s, e)[Len(s) + 1] = e
  OBVIOUS
<1>4. e \in ToSet(Append(s, e))
  BY <1>3 DEF ToSet
<1> QED BY <1>1, <1>2, <1>4

LEMMA ToSetTail ==
  ASSUME NEW s \in Seq(Nat), s # <<>> PROVE ToSet(s) = {Head(s)} \cup ToSet(Tail(s))
<1>1. ASSUME NEW i \in DOMAIN s PROVE s[i] \in {Head(s)} \cup ToSet(Tail(s))
  <2>1. CASE i = 1
    BY <2>1
  <2>2. CASE i # 1
    <3>1. i - 1 \in DOMAIN Tail(s) /\ Tail(s)[i - 1] = s[i]
      BY <2>2
    <3> QED BY <3>1 DEF ToSet
  <2> QED BY <2>1, <2>2
<1>2. ASSUME NEW i \in DOMAIN Tail(s) PROVE Tail(s)[i] \in ToSet(s)
  <2>1. i + 1 \in DOMAIN s /\ s[i + 1] = Tail(s)[i]
    OBVIOUS
  <2> QED BY <2>1 DEF ToSet
<1>3. Head(s) \in ToSet(s)
  <2>1. 1 \in DOMAIN s /\ s[1] = Head(s)
    OBVIOUS
  <2> QED BY <2>1 DEF ToSet
<1> QED BY <1>1, <1>2, <1>3 DEF ToSet

LEMMA TraceStep == TraceInv /\ [TraceNext]_traceVars => TraceInv'
<1> SUFFICES ASSUME TraceInv, [TraceNext]_traceVars PROVE TraceInv'
  OBVIOUS
<1> USE DEF TraceInv
<1>0. trcChan \in Seq(Nat) /\ trcHand \in Seq(Nat) /\ trcRows \in Seq(Nat)
  BY DEF TraceTypeOK
<1>1. ASSUME UNCHANGED <<trcChan, trcHand, trcRows, trcKept, trcFailed, trcCount>> PROVE Accounted' /\ InOrder'
  BY <1>1 DEF Accounted, InOrder, Ordered, Before, ToSet
<1>2. ASSUME NEW h \in TrcHandlers, TrcBegin(h) \/ TrcReturn(h) PROVE TraceInv'
  <2>1. Accounted' /\ InOrder'
    BY <1>1, <1>2 DEF TrcBegin, TrcReturn
  <2>2. TraceTypeOK'
    BY <1>2 DEF TrcBegin, TrcReturn, TraceTypeOK
  <2>3. Closing'
    BY <1>2 DEF TrcBegin, TrcReturn, Up, Closing
  <2> QED BY <2>1, <2>2, <2>3
<1>3. ASSUME NEW h \in TrcHandlers, TrcRecord(h) PROVE TraceInv'
  <2>1. trcChan' \in Seq(Nat) /\ trcKept' \subseteq Nat /\ trcCount' \in Nat
    <3>1. trcCount + 1 \in Nat /\ Append(trcChan, trcCount + 1) \in Seq(Nat)
      BY <1>0 DEF TraceTypeOK
    <3> QED BY <3>1, <1>3 DEF TrcRecord, TraceTypeOK
  <2>2. TraceTypeOK'
    BY <1>3, <2>1 DEF TrcRecord, TraceTypeOK
  <2>3. Closing'
    BY <1>3 DEF TrcRecord, Up, Closing
  <2>4. CASE UNCHANGED <<trcChan, trcKept>>
    <3>1. UNCHANGED <<trcHand, trcRows, trcFailed>> /\ trcCount' = trcCount + 1
      BY <1>3 DEF TrcRecord
    <3>2. Accounted'
      BY <2>4, <3>1 DEF Accounted
    <3>3. \A s \in Seq(Nat) : \A i \in DOMAIN s : s[i] <= trcCount => s[i] <= trcCount + 1
      BY DEF TraceTypeOK
    <3>4. InOrder'
      BY <1>0, <2>4, <3>1, <3>3 DEF InOrder, Ordered, Before
    <3> QED BY <2>2, <2>3, <3>2, <3>4
  <2>5. CASE trcChan' = Append(trcChan, trcCount + 1) /\ trcKept' = trcKept \cup {trcCount + 1}
    <3>1. UNCHANGED <<trcHand, trcRows, trcFailed>> /\ trcCount' = trcCount + 1 /\ trcCount \in Nat
      BY <1>3 DEF TrcRecord, TraceTypeOK
    <3>2. ToSet(trcChan') = ToSet(trcChan) \cup {trcCount + 1}
      BY <1>0, <2>5, <3>1, ToSetAppend
    <3>3. Accounted'
      BY <2>5, <3>1, <3>2 DEF Accounted
    <3>4. /\ DOMAIN trcChan' = DOMAIN trcChan \cup {Len(trcChan) + 1}
          /\ \A i \in DOMAIN trcChan : trcChan'[i] = trcChan[i] /\ i < Len(trcChan) + 1
          /\ trcChan'[Len(trcChan) + 1] = trcCount + 1
          /\ \A i \in DOMAIN trcChan' : i <= Len(trcChan) + 1
      BY <1>0, <2>5, <3>1, AppendProperties
    <3>5. /\ \A i \in DOMAIN trcRows : trcRows[i] \in Nat /\ trcRows[i] < trcCount + 1
          /\ \A i \in DOMAIN trcHand : trcHand[i] \in Nat /\ trcHand[i] < trcCount + 1
          /\ \A i \in DOMAIN trcChan : trcChan[i] \in Nat /\ trcChan[i] < trcCount + 1
      BY <1>0, <3>1 DEF InOrder
    <3>6. Ordered(trcChan)'
      BY <1>0, <3>4, <3>5 DEF InOrder, Ordered
    <3>7. Ordered(trcRows)' /\ Before(trcRows, trcHand)'
      BY <3>1 DEF InOrder, Ordered, Before
    <3>8. Before(trcRows, trcChan)' /\ Before(trcHand, trcChan)'
      BY <3>1, <3>4, <3>5 DEF InOrder, Before
    <3>9. InOrder'
      BY <3>1, <3>4, <3>5, <3>6, <3>7, <3>8 DEF InOrder
    <3> QED BY <2>2, <2>3, <3>3, <3>9
  <2> QED BY <1>3, <2>4, <2>5 DEF TrcRecord
<1>4. CASE TrcTake
  <2>1. TraceTypeOK' /\ Closing'
    BY <1>0, <1>4 DEF TrcTake, Up, TraceTypeOK, Closing
  <2>2. trcHand = <<>> /\ trcChan # <<>> /\ trcHand' = <<Head(trcChan)>> /\ trcChan' = Tail(trcChan)
        /\ UNCHANGED <<trcRows, trcKept, trcFailed, trcCount>>
    BY <1>4 DEF TrcTake
  <2>3. ToSet(trcHand) = {} /\ ToSet(trcHand') = {Head(trcChan)} /\ ToSet(trcRows)' = ToSet(trcRows)
    BY <2>2 DEF ToSet
  <2>4. Accounted'
    BY <1>0, <2>2, <2>3, ToSetTail DEF Accounted
  <2>5. InOrder'
    <3>1. \A i \in DOMAIN Tail(trcChan) : i + 1 \in DOMAIN trcChan /\ Tail(trcChan)[i] = trcChan[i + 1]
      BY <1>0, <2>2
    <3>2. 1 \in DOMAIN trcChan /\ Head(trcChan) = trcChan[1] /\ DOMAIN <<Head(trcChan)>> = {1}
      BY <1>0, <2>2
    <3>3. DOMAIN trcChan \subseteq Nat /\ DOMAIN Tail(trcChan) \subseteq Nat
          /\ \A i \in DOMAIN Tail(trcChan) : 1 < i + 1
      BY <1>0, <2>2
    <3> QED BY <2>2, <3>1, <3>2, <3>3 DEF InOrder, Ordered, Before
  <2> QED BY <2>1, <2>4, <2>5
<1>5. CASE TrcWrite
  <2>1. PICK e \in Nat : trcHand = <<e>>
    <3>1. trcHand # <<>> /\ Len(trcHand) <= 1
      BY <1>5 DEF TrcWrite, TraceTypeOK
    <3> QED BY <1>0, <3>1, SeqOfAtMostOne
  <2>2. trcHand' = <<>> /\ UNCHANGED <<trcChan, trcLoop, trcClosed, trcMain, trcBusy, trcKept, trcCount>>
        /\ trcLoop # "gone" /\ trcHand[1] = e
    BY <1>5, <2>1 DEF TrcWrite, Closing
  <2>3. Closing'
    BY <2>2 DEF Closing
  <2>4. ToSet(trcHand) = {e} /\ ToSet(<<>>) = {} /\ DOMAIN trcHand = {1} /\ DOMAIN trcHand' = {}
    BY <2>1, <2>2 DEF ToSet
  <2>5. CASE trcRows' = Append(trcRows, e) /\ UNCHANGED trcFailed
    <3>1. trcRows' \in Seq(Nat) /\ ToSet(trcRows') = ToSet(trcRows) \cup {e}
      BY <1>0, <2>5, ToSetAppend
    <3>2. TraceTypeOK'
      BY <2>2, <3>1 DEF TraceTypeOK
    <3>3. Accounted'
      BY <2>2, <2>4, <2>5, <3>1 DEF Accounted
    <3>4. /\ DOMAIN trcRows' = DOMAIN trcRows \cup {Len(trcRows) + 1}
          /\ \A i \in DOMAIN trcRows : trcRows'[i] = trcRows[i] /\ i < Len(trcRows) + 1
          /\ trcRows'[Len(trcRows) + 1] = e
          /\ \A i \in DOMAIN trcRows' : i <= Len(trcRows) + 1
      BY <1>0, <2>5, AppendProperties
    <3>5. e <= trcCount /\ (\A i \in DOMAIN trcRows : trcRows[i] < e) /\ (\A i \in DOMAIN trcChan : e < trcChan[i])
      BY <2>2, <2>4 DEF InOrder, Before
    <3>6. Ordered(trcRows)'
      BY <1>0, <3>4, <3>5 DEF InOrder, Ordered
    <3>7. Before(trcRows, trcChan)' /\ Ordered(trcChan)'
      BY <2>2, <3>4, <3>5 DEF InOrder, Before, Ordered
    <3>8. InOrder'
      BY <2>2, <2>4, <3>4, <3>5, <3>6, <3>7 DEF InOrder, Before
    <3> QED BY <2>3, <3>2, <3>3, <3>8
  <2>6. CASE trcFailed' = trcFailed \cup {e} /\ UNCHANGED trcRows
    <3>1. TraceTypeOK'
      BY <2>2, <2>6 DEF TraceTypeOK
    <3>2. Accounted'
      BY <2>2, <2>4, <2>6 DEF Accounted
    <3>3. InOrder'
      BY <2>2, <2>4, <2>6 DEF InOrder, Before, Ordered
    <3> QED BY <2>3, <3>1, <3>2, <3>3
  <2>7. trcRows \o trcHand = Append(trcRows, e)
    BY <1>0, <2>1
  <2> QED BY <1>5, <2>2, <2>5, <2>6, <2>7 DEF TrcWrite
<1>6. CASE TrcSeeClosed \/ TrcDrained
  BY <1>1, <1>6 DEF TrcSeeClosed, TrcDrained, Up, OnClosed, TraceTypeOK, Closing
<1>7. CASE TrcSignal \/ TrcClose \/ TrcExit \/ TrcClosed
  <2>1. Accounted' /\ InOrder'
    BY <1>1, <1>7 DEF TrcSignal, TrcClose, TrcExit, TrcClosed
  <2>2. TraceTypeOK'
    BY <1>7 DEF TrcSignal, TrcClose, TrcExit, TrcClosed, TraceTypeOK
  <2>3. Closing'
    BY <1>7 DEF TrcSignal, TrcClose, TrcExit, TrcClosed, ConsumersReturned, Closing
  <2> QED BY <2>1, <2>2, <2>3
<1>8. CASE UNCHANGED traceVars
  BY <1>1, <1>8 DEF traceVars, TraceTypeOK, Closing
<1> QED BY <1>2, <1>3, <1>4, <1>5, <1>6, <1>7, <1>8 DEF TraceNext, TrcWork

(* A pusher that its signal has ended leaves each event it accepted in the  *)
(* table, unless its insertion failed, and the rows in order of acceptance. *)
THEOREM NothingAcceptedIsLost == TraceSpec => []AcceptedIsStored
<1>1. TraceInv => AcceptedIsStored
  BY DEF TraceInv, TraceTypeOK, Closing, Accounted, InOrder, Ordered, AcceptedIsStored, ToSet
<1> QED BY <1>1, TraceInitInv, TraceStep, PTL DEF TraceSpec

-----------------------------------------------------------------------------
(***************************************************************************)
(* ChannelLimits.  What is owed of a bucket, what it holds and what it has *)
(* earned since at the full rate never exceed its burst: a request that    *)
(* computed a lower rate refills less, and a bucket that Redis has         *)
(* forgotten would have been full.                                         *)
(***************************************************************************)
LimCalls == [step : {"idle", "global", "rates", "channel"}, prio : LimKeys, rate : Nat, store : LimStores]

LimitsTypeOK ==
  /\ limClock \in Nat \ {0} /\ limShrunk \in Nat /\ limFaults \in Nat
  /\ limBucket \in [LimStores -> [LimKeys -> [tokens : Nat, ts : Nat]]]
  /\ limDebt \in [LimStores -> [LimKeys -> Nat]]
  /\ limCall \in [LimProcs -> LimCalls]

FullRate(s, k) == StoreRate(s, LimRates[k])

(* What is owed of a bucket: it, what is stored and what has been earned   *)
(* since at the full rate do not exceed the burst.                         *)
DebtCovered(debt, b, clock, s, k) ==
  debt > 0 => b # LimNew /\ debt + b.tokens + (clock - b.ts) * FullRate(s, k) <= StoreBurst(s, k)

LimitsInv ==
  /\ LimitsTypeOK
  /\ \A s \in LimStores, k \in LimKeys :
       /\ limBucket[s][k].ts <= limClock
       /\ DebtCovered(limDebt[s][k], limBucket[s][k], limClock, s, k)
  /\ \A p \in LimProcs : limCall[p].step = "channel" => limCall[p].rate <= LimRates[limCall[p].prio]

-----------------------------------------------------------------------------
LEMMA LimMax ==
  ASSUME NEW a \in Nat, NEW b \in Nat
  PROVE  Max({a, b}) = IF a <= b THEN b ELSE a
<1>1. \E x \in {a, b} : \A y \in {a, b} : x >= y
  <2>1. a <= b \/ b <= a
    OBVIOUS
  <2> QED BY <2>1
<1>2. Max({a, b}) \in {a, b} /\ \A y \in {a, b} : Max({a, b}) >= y
  BY <1>1 DEF Max
<1> QED BY <1>2

LEMMA LimMin ==
  ASSUME NEW a \in Nat, NEW b \in Nat
  PROVE  Min({a, b}) = IF a <= b THEN a ELSE b
<1>1. \E x \in {a, b} : \A y \in {a, b} : x <= y
  <2>1. a <= b \/ b <= a
    OBVIOUS
  <2> QED BY <2>1
<1>2. Min({a, b}) \in {a, b} /\ \A y \in {a, b} : Min({a, b}) <= y
  BY <1>1 DEF Min
<1> QED BY <1>2

LEMMA TimesMonotone ==
  ASSUME NEW a \in Nat, NEW b \in Nat, NEW c \in Nat, a <= b
  PROVE  a * c <= b * c /\ c * a <= c * b /\ a * c \in Nat
OBVIOUS

(* A slower rate earns less, in either store                               *)
LEMMA StoreRateMonotone ==
  ASSUME NEW s, NEW rate \in Nat, NEW full \in Nat, rate <= full
  PROVE  StoreRate(s, rate) \in Nat /\ StoreRate(s, full) \in Nat /\ StoreRate(s, rate) <= StoreRate(s, full)
<1> USE LimAssumption
<1>1. rate \div 2 \in Nat /\ full \div 2 \in Nat /\ rate \div 2 <= full \div 2
  OBVIOUS
<1>2. Max({LimToken, rate \div 2}) = IF LimToken <= rate \div 2 THEN rate \div 2 ELSE LimToken
  BY <1>1, LimMax
<1>3. Max({LimToken, full \div 2}) = IF LimToken <= full \div 2 THEN full \div 2 ELSE LimToken
  BY <1>1, LimMax
<1>4. Degraded(rate) \in Nat /\ Degraded(full) \in Nat /\ Degraded(rate) <= Degraded(full)
  BY <1>1, <1>2, <1>3 DEF Degraded
<1> QED BY <1>4 DEF StoreRate

LEMMA FullRateType == ASSUME NEW s \in LimStores, NEW k \in LimKeys
                      PROVE  FullRate(s, k) \in Nat /\ StoreBurst(s, k) \in Nat
<1>1. LimRates[k] \in Nat /\ LimBursts[k] \in Nat /\ LimBursts[k] <= LimBursts[k]
  BY LimAssumption
<1>2. FullRate(s, k) \in Nat
  BY <1>1, StoreRateMonotone DEF FullRate
<1>3. Degraded(LimBursts[k]) \in Nat
  <2>1. LimBursts[k] \div 2 \in Nat
    BY <1>1
  <2> QED BY <2>1, LimMax, LimAssumption DEF Degraded
<1> QED BY <1>1, <1>2, <1>3 DEF StoreBurst

(* What Take finds in a bucket covers the debt as well as what was stored. *)
LEMMA RefilledCovers ==
  ASSUME NEW s \in LimStores, NEW k \in LimKeys, NEW b \in [tokens : Nat, ts : Nat],
         NEW rate \in Nat, rate <= LimRates[k], NEW debt \in Nat, limClock \in Nat, b.ts <= limClock,
         DebtCovered(debt, b, limClock, s, k),
         NEW tokens,
         tokens = IF Missing(s, b) THEN StoreBurst(s, k) ELSE Refilled(b, StoreRate(s, rate), StoreBurst(s, k))
  PROVE  tokens \in Nat /\ debt + tokens <= StoreBurst(s, k)
<1> DEFINE full == FullRate(s, k)
           burst == StoreBurst(s, k)
           slow == StoreRate(s, rate)
           age == limClock - b.ts
<1>1. full \in Nat /\ burst \in Nat /\ age \in Nat /\ b.tokens \in Nat
  BY FullRateType
<1>2. slow \in Nat /\ slow <= full
  BY StoreRateMonotone, LimAssumption DEF FullRate
<1>3. debt > 0 => debt + b.tokens + age * full <= burst /\ b # LimNew
  BY DEF DebtCovered
<1>4. age * slow <= age * full /\ age * slow \in Nat /\ age * full \in Nat
  <2> HIDE DEF age, slow, full
  <2>1. slow * age <= full * age /\ age * slow <= age * full /\ slow * age \in Nat /\ full * age \in Nat
    BY <1>1, <1>2, TimesMonotone
  <2>2. age * slow = slow * age /\ age * full = full * age
    BY <1>1, <1>2
  <2> QED BY <2>1, <2>2
<1>5. CASE ~Missing(s, b)
  <2>1. tokens = Min({burst, b.tokens + age * slow})
    BY <1>5 DEF Refilled
  <2> HIDE DEF age, slow, full, burst
  <2>2. b.tokens + age * slow \in Nat
    BY <1>1, <1>4
  <2>3. tokens \in Nat /\ tokens <= burst /\ tokens <= b.tokens + age * slow
    BY <1>1, <2>1, <2>2, LimMin
  <2>4. debt + tokens <= burst
    BY <1>1, <1>3, <1>4, <2>3
  <2> QED BY <2>3, <2>4 DEF burst
<1>6. CASE Missing(s, b)
  <2>1. tokens = burst
    BY <1>6
  <2>2. ASSUME debt > 0 PROVE FALSE
    <3>1. s = "redis" /\ limClock >= b.ts + LimKeyTTL
      BY <1>3, <1>6, <2>2 DEF Missing
    <3>2. LimKeyTTL \in Nat /\ LimKeyTTL <= age
      BY <3>1, LimAssumption
    <3>3. full = LimRates[k] /\ burst = LimBursts[k] /\ burst <= LimKeyTTL * full
      BY <3>1, LimAssumption DEF FullRate, StoreRate, StoreBurst
    <3> HIDE DEF age, slow, full, burst
    <3>4. LimKeyTTL * full <= age * full /\ LimKeyTTL * full \in Nat
      BY <1>1, <3>2, TimesMonotone
    <3> QED BY <1>1, <1>3, <1>4, <2>2, <3>3, <3>4
  <2> HIDE DEF age, slow, full, burst
  <2>3. debt = 0
    BY <2>2
  <2> QED BY <1>1, <2>1, <2>3 DEF burst
<1> QED BY <1>5, <1>6

-----------------------------------------------------------------------------
LEMMA LimInit == LimitsInit => LimitsInv
<1> SUFFICES ASSUME LimitsInit PROVE LimitsInv
  OBVIOUS
<1>1. \A s \in LimStores, k \in LimKeys : limDebt[s][k] = 0 /\ limBucket[s][k] = LimNew
  BY DEF LimitsInit
<1>2. LimitsTypeOK
  BY DEF LimitsInit, LimitsTypeOK, LimCalls, LimNew, LimIdle, LimKeys, LimStores
<1> QED BY <1>1, <1>2 DEF LimitsInv, DebtCovered, LimitsInit, LimNew, LimIdle

(* Take, of either bucket, keeps the debts covered.                        *)
LEMMA TakeKeeps ==
  ASSUME LimitsInv, NEW p \in LimProcs, NEW key \in LimKeys, NEW rate \in Nat, rate <= LimRates[key],
         Take(p, key, rate), UNCHANGED <<limClock, limShrunk, limFaults>>
  PROVE  LimitsInv'
<1> DEFINE store == limCall[p].store
           b == limBucket[store][key]
           debt == limDebt[store][key]
           burst == StoreBurst(store, key)
           tokens == IF Missing(store, b) THEN burst ELSE Refilled(b, StoreRate(store, rate), burst)
           allowed == tokens >= LimToken
           nb == [tokens |-> IF allowed THEN tokens - LimToken ELSE tokens, ts |-> limClock]
           nd == IF allowed THEN debt + LimToken ELSE debt
<1>1. /\ limBucket' = [limBucket EXCEPT ![store][key] = nb]
      /\ limDebt' = IF allowed THEN [limDebt EXCEPT ![store][key] = @ + LimToken] ELSE limDebt
      /\ limCall' = IF ~allowed THEN limCall
                    ELSE [limCall EXCEPT ![p] = IF key = "global"
                       THEN [@ EXCEPT !.step = "rates", !.store = "redis"] ELSE LimIdle]
  BY DEF Take
<1>2. /\ store \in LimStores /\ b \in [tokens : Nat, ts : Nat] /\ debt \in Nat /\ b.ts <= limClock
      /\ DebtCovered(debt, b, limClock, store, key) /\ limClock \in Nat
  BY DEF LimitsInv, LimitsTypeOK, LimCalls
<1>3. tokens \in Nat /\ debt + tokens <= burst /\ burst \in Nat
  BY <1>2, RefilledCovers, FullRateType
<1>4. LimToken \in Nat \ {0}
  BY LimAssumption
<1>5. limDebt' = [limDebt EXCEPT ![store][key] = nd]
  <2>1. limDebt = [limDebt EXCEPT ![store][key] = debt]
    BY <1>2 DEF LimitsInv, LimitsTypeOK
  <2> QED BY <1>1, <2>1
<1> HIDE DEF tokens, burst
<1>6. /\ nb \in [tokens : Nat, ts : Nat] /\ nb.ts = limClock /\ nd \in Nat
      /\ nd + nb.tokens <= burst
  BY <1>2, <1>3, <1>4
<1>7. nb # LimNew
  BY <1>6 DEF LimitsInv, LimitsTypeOK, LimNew
<1> HIDE DEF nb, nd
<1>8. DebtCovered(nd, nb, limClock, store, key)
  <2>1. (limClock - nb.ts) * FullRate(store, key) = 0
    <3>1. limClock - nb.ts = 0
      BY <1>2, <1>6
    <3> QED BY <3>1, <1>2, FullRateType
  <2> QED BY <1>6, <1>7, <2>1 DEF DebtCovered, burst
<1>9. \A s \in LimStores, k \in LimKeys :
        /\ limBucket'[s][k] = IF s = store /\ k = key THEN nb ELSE limBucket[s][k]
        /\ limDebt'[s][k] = IF s = store /\ k = key THEN nd ELSE limDebt[s][k]
  BY <1>1, <1>2, <1>5 DEF LimitsInv, LimitsTypeOK
<1>10. \A s \in LimStores, k \in LimKeys :
         /\ limBucket'[s][k].ts <= limClock'
         /\ DebtCovered(limDebt'[s][k], limBucket'[s][k], limClock', s, k)
  <2> SUFFICES ASSUME NEW s \in LimStores, NEW k \in LimKeys
               PROVE  limBucket'[s][k].ts <= limClock' /\ DebtCovered(limDebt'[s][k], limBucket'[s][k], limClock', s, k)
    OBVIOUS
  <2>1. CASE s = store /\ k = key
    BY <2>1, <1>2, <1>6, <1>8, <1>9
  <2>2. CASE ~(s = store /\ k = key)
    <3>1. limBucket'[s][k] = limBucket[s][k] /\ limDebt'[s][k] = limDebt[s][k] /\ limClock' = limClock
      BY <2>2, <1>9
    <3>2. limBucket[s][k].ts <= limClock /\ DebtCovered(limDebt[s][k], limBucket[s][k], limClock, s, k)
      BY DEF LimitsInv
    <3> QED BY <3>1, <3>2
  <2> QED BY <2>1, <2>2
<1>11. limBucket' \in [LimStores -> [LimKeys -> [tokens : Nat, ts : Nat]]] /\ limDebt' \in [LimStores -> [LimKeys -> Nat]]
  BY <1>1, <1>2, <1>5, <1>6 DEF LimitsInv, LimitsTypeOK
<1>12. /\ limCall' \in [LimProcs -> LimCalls]
       /\ \A q \in LimProcs : limCall'[q].step = "channel" => limCall'[q] = limCall[q]
  <2>1. "redis" \in LimStores /\ "global" \in LimKeys
    BY DEF LimStores, LimKeys
  <2> HIDE DEF allowed
  <2>2. limCall' \in {limCall, [limCall EXCEPT ![p] = LimIdle],
                     [limCall EXCEPT ![p] = [@ EXCEPT !.step = "rates", !.store = "redis"]]}
    BY <1>1
  <2>3. limCall \in [LimProcs -> LimCalls]
    BY DEF LimitsInv, LimitsTypeOK
  <2>4. LimIdle \in LimCalls /\ LimIdle.step # "channel"
    BY <2>1 DEF LimCalls, LimIdle
  <2>5. PICK call \in LimCalls : limCall' \in {limCall, [limCall EXCEPT ![p] = call]} /\ call.step # "channel"
    <3>1. [limCall[p] EXCEPT !.step = "rates", !.store = "redis"] \in LimCalls
      BY <2>1, <2>3 DEF LimCalls
    <3>2. [limCall[p] EXCEPT !.step = "rates", !.store = "redis"].step # "channel"
      BY <2>3 DEF LimCalls
    <3> QED BY <2>2, <2>4, <3>1, <3>2
  <2> QED BY <2>3, <2>5
<1> QED BY <1>10, <1>11, <1>12 DEF LimitsInv, LimitsTypeOK

(* What a request does besides.                                            *)
LEMMA CallKeeps ==
  ASSUME LimitsInv, NEW p \in LimProcs,
         \/ \E prio \in LimPrios : LimWait(p, prio)
         \/ \E failed \in BOOLEAN : LimReadRates(p, failed)
         \/ LimDegrade(p) \/ LimTimeout(p)
  PROVE  LimitsInv'
<1>1. "redis" \in LimStores /\ p \in LimStores /\ "global" \in LimKeys /\ LimPrios \subseteq LimKeys
  BY DEF LimStores, LimKeys
<1>2. UNCHANGED <<limClock, limBucket, limShrunk, limDebt>>
  BY DEF LimWait, LimReadRates, LimDegrade, LimTimeout
<1>3. limCall[p] \in LimCalls
  BY DEF LimitsInv, LimitsTypeOK
<1>4. /\ limCall' \in [LimProcs -> LimCalls] /\ limFaults' \in Nat
      /\ \A q \in LimProcs : limCall'[q].step = "channel" =>
           limCall'[q].rate <= LimRates[limCall'[q].prio]
  <2> USE DEF LimitsInv, LimitsTypeOK, LimCalls
  <2>1. CASE \E prio \in LimPrios : LimWait(p, prio)
    <3>1. PICK prio \in LimPrios :
            limCall' = [limCall EXCEPT ![p] = [LimIdle EXCEPT !.step = "global", !.prio = prio]] /\ limFaults' = limFaults
      BY <2>1 DEF LimWait
    <3>2. LimIdle \in LimCalls
      BY <1>1 DEF LimIdle
    <3>3. [LimIdle EXCEPT !.step = "global", !.prio = prio] \in LimCalls
          /\ [LimIdle EXCEPT !.step = "global", !.prio = prio].step = "global"
      BY <1>1, <3>2
    <3> QED BY <3>1, <3>2, <3>3
  <2>2. CASE \E failed \in BOOLEAN : LimReadRates(p, failed)
    <3> DEFINE full == LimRates[limCall[p].prio]
    <3>1. PICK failed \in BOOLEAN : LimReadRates(p, failed)
      BY <2>2
    <3>2. full \in Nat
      BY <1>3, LimAssumption
    <3>3. PICK rate \in {full \div 2, full} :
            limCall' = [limCall EXCEPT ![p].step = "channel", ![p].rate = rate]
      BY <3>1 DEF LimReadRates
    <3>4. rate \in Nat /\ rate <= full
      BY <3>2, <3>3
    <3>5. limFaults' \in Nat
      <4>1. limFaults' = limFaults + 1 \/ limFaults' = limFaults + 0
        BY <3>1 DEF LimReadRates
      <4> QED BY <4>1
    <3>6. /\ limCall' \in [LimProcs -> LimCalls] /\ limCall'[p].rate = rate /\ limCall'[p].prio = limCall[p].prio
          /\ \A q \in LimProcs \ {p} : limCall'[q] = limCall[q]
      BY <3>3, <3>4
    <3> QED BY <3>4, <3>5, <3>6
  <2>3. CASE LimDegrade(p)
    BY <1>1, <1>3, <2>3 DEF LimDegrade
  <2>4. CASE LimTimeout(p)
    BY <1>1, <2>4 DEF LimTimeout, LimIdle
  <2> QED BY <2>1, <2>2, <2>3, <2>4
<1> QED BY <1>2, <1>4 DEF LimitsInv, LimitsTypeOK

(* A tick earns back what a bucket may have gained by it.                  *)
LEMMA TickKeeps == ASSUME LimitsInv, LimTick PROVE LimitsInv'
<1>1. limClock' = limClock + 1 /\ limClock \in Nat /\ UNCHANGED <<limBucket, limCall, limShrunk, limFaults>>
  BY DEF LimTick, LimitsInv, LimitsTypeOK
<1>2. ASSUME NEW s \in LimStores, NEW k \in LimKeys
      PROVE  /\ limDebt'[s][k] \in Nat /\ limBucket'[s][k].ts <= limClock'
             /\ DebtCovered(limDebt'[s][k], limBucket'[s][k], limClock', s, k)
  <2> DEFINE full == FullRate(s, k)
             b == limBucket[s][k]
             debt == limDebt[s][k]
             age == limClock - b.ts
  <2>1. full \in Nat /\ debt \in Nat /\ b \in [tokens : Nat, ts : Nat] /\ b.ts <= limClock
        /\ DebtCovered(debt, b, limClock, s, k) /\ age \in Nat /\ b.tokens \in Nat /\ StoreBurst(s, k) \in Nat
    BY <1>1, FullRateType DEF LimitsInv, LimitsTypeOK
  <2>2. limDebt'[s][k] = Max({debt, full}) - full
    BY DEF LimTick, FullRate
  <2>3. limDebt'[s][k] = IF debt <= full THEN 0 ELSE debt - full
    <3> HIDE DEF debt, full
    <3> QED BY <2>1, <2>2, LimMax
  <2>4. limBucket'[s][k] = b /\ limClock' - b.ts = age + 1
    BY <1>1, <2>1
  <2>5. (age + 1) * full = age * full + full
    <3> HIDE DEF age, full
    <3> QED BY <2>1
  <2>6. age * full \in Nat
    <3> HIDE DEF age, full
    <3> QED BY <2>1, TimesMonotone
  <2>7. debt > 0 => b # LimNew /\ debt + b.tokens + age * full <= StoreBurst(s, k)
    BY <2>1 DEF DebtCovered
  <2> HIDE DEF age, full, debt
  <2>8. limDebt'[s][k] > 0 => b # LimNew /\ limDebt'[s][k] + b.tokens + (age + 1) * full <= StoreBurst(s, k)
    BY <2>1, <2>3, <2>5, <2>6, <2>7
  <2>9. DebtCovered(limDebt'[s][k], limBucket'[s][k], limClock', s, k)
    BY <2>4, <2>8 DEF DebtCovered, full
  <2>10. limDebt'[s][k] \in Nat
    BY <2>1, <2>3
  <2>11. limBucket'[s][k].ts <= limClock'
    BY <1>1, <2>1, <2>4
  <2> QED BY <2>9, <2>10, <2>11
<1>3. limDebt' \in [LimStores -> [LimKeys -> Nat]]
  <2>1. limDebt' = [s \in LimStores |-> [k \in LimKeys |-> limDebt'[s][k]]]
    BY DEF LimTick
  <2> QED BY <1>2, <2>1
<1> QED BY <1>1, <1>2, <1>3 DEF LimitsInv, LimitsTypeOK

LEMMA LimitsStep == LimitsInv /\ [LimitsNext]_limitVars => LimitsInv'
<1> SUFFICES ASSUME LimitsInv, [LimitsNext]_limitVars PROVE LimitsInv'
  OBVIOUS
<1>1. ASSUME NEW p \in LimProcs, LimTakeGlobal(p) PROVE LimitsInv'
  <2>1. "global" \in LimKeys /\ LimRates["global"] \in Nat /\ LimRates["global"] <= LimRates["global"]
    BY LimAssumption DEF LimKeys
  <2> QED BY <1>1, <2>1, TakeKeeps DEF LimTakeGlobal
<1>2. ASSUME NEW p \in LimProcs, LimTakeChannel(p) PROVE LimitsInv'
  <2>1. limCall[p].prio \in LimKeys /\ limCall[p].rate \in Nat /\ limCall[p].rate <= LimRates[limCall[p].prio]
    BY <1>2 DEF LimTakeChannel, LimitsInv, LimitsTypeOK, LimCalls
  <2> QED BY <1>2, <2>1, TakeKeeps DEF LimTakeChannel
<1>3. CASE LimObserveThrottle
  BY <1>3, LimAssumption DEF LimObserveThrottle, LimitsInv, LimitsTypeOK
<1>4. CASE UNCHANGED limitVars
  BY <1>4 DEF limitVars, LimitsInv, LimitsTypeOK
<1> QED BY <1>1, <1>2, <1>3, <1>4, CallKeeps, TickKeeps DEF LimitsNext

(* Over every stretch of time a bucket, of Redis or of a process that      *)
(* cannot reach it, grants at most its burst and what its full rate earns, *)
(* for any number of processes that read different rates.                  *)
THEOREM GrantsAreEarned == LimitsSpec => []BucketsHold
<1>1. LimitsInv => BucketsHold
  <2> SUFFICES ASSUME LimitsInv, NEW s \in LimStores, NEW k \in LimKeys
               PROVE  limDebt[s][k] <= StoreBurst(s, k)
    BY DEF BucketsHold
  <2> DEFINE age == limClock - limBucket[s][k].ts
  <2>1. /\ limDebt[s][k] \in Nat /\ limBucket[s][k].tokens \in Nat /\ age \in Nat
        /\ FullRate(s, k) \in Nat /\ StoreBurst(s, k) \in Nat
        /\ (limDebt[s][k] > 0 => limDebt[s][k] + limBucket[s][k].tokens + age * FullRate(s, k) <= StoreBurst(s, k))
    BY FullRateType DEF LimitsInv, LimitsTypeOK, DebtCovered
  <2> HIDE DEF age
  <2>2. age * FullRate(s, k) \in Nat
    BY <2>1, TimesMonotone
  <2> QED BY <2>1, <2>2
<1> QED BY <1>1, LimInit, LimitsStep, PTL DEF LimitsSpec
-----------------------------------------------------------------------------
(***************************************************************************)
(* FrequencyWindows.  A counter that is alive is the number of sends since *)
(* its window began; all earlier ones lie before the expiry of the counter *)
(* they were counted in, so none of them falls into the next window.       *)
(***************************************************************************)
FrequencyTypeOK ==
  /\ frqClock \in Nat
  /\ frqCount \in [FrqKeys -> [value : Nat, until : Nat]]
  /\ frqSends \in [FrqKeys -> SUBSET (Nat \X Nat)]

(* The sends of a key have different numbers and lie before its expiry.    *)
Numbered(sends, until) ==
  /\ IsFiniteSet(sends)
  /\ \A send \in sends : send[1] < until /\ send[2] < Cardinality(sends)

(* The sends since the window began are as many as the key counts.         *)
Windowed(k, count, sends) ==
  LET since == {send \in sends : send[1] >= count.until - FrqWindow[k]} IN
  /\ count.value = Cardinality(since) /\ count.value \in 1..FrqLimit[k]
  /\ count.until - FrqWindow[k] <= frqClock

FrequencyInv ==
  /\ FrequencyTypeOK
  /\ \A k \in FrqKeys : /\ Numbered(frqSends[k], frqCount[k].until)
                        /\ frqClock < frqCount[k].until => Windowed(k, frqCount[k], frqSends[k])

LEMMA FrqInit == FrequencyInit => FrequencyInv
<1> SUFFICES ASSUME FrequencyInit PROVE FrequencyInv
  OBVIOUS
<1>1. FrequencyTypeOK
  BY DEF FrequencyInit, FrequencyTypeOK
<1>2. \A k \in FrqKeys : Numbered(frqSends[k], frqCount[k].until) /\ frqCount[k].until = 0
  BY FS_EmptySet DEF FrequencyInit, Numbered
<1> QED BY <1>1, <1>2 DEF FrequencyInv, FrequencyInit

(* One more send of a key within a window, or the first one of the next    *)
LEMMA OneMore ==
  ASSUME FrequencyInv, NEW k \in FrqKeys, FrqLimit[k] > 0, FrqWindow[k] > 0, Value(k) < FrqLimit[k],
         NEW count \in [value : Nat, until : Nat], NEW sends,
         count.value = Value(k) + 1,
         count.until = IF Value(k) = 0 THEN frqClock + FrqWindow[k] ELSE frqCount[k].until,
         sends = frqSends[k] \cup {<<frqClock, Cardinality(frqSends[k])>>}
  PROVE  Numbered(sends, count.until) /\ Windowed(k, count, sends)
<1> DEFINE n == Cardinality(frqSends[k])
           send == <<frqClock, n>>
           old == {x \in frqSends[k] : x[1] >= count.until - FrqWindow[k]}
           new == {x \in sends : x[1] >= count.until - FrqWindow[k]}
<1>t. /\ frqClock \in Nat /\ FrqLimit[k] \in Nat /\ FrqWindow[k] \in Nat
      /\ frqCount[k].value \in Nat /\ frqCount[k].until \in Nat /\ count.until \in Nat
      /\ frqSends[k] \subseteq Nat \X Nat /\ Value(k) \in Nat
  BY FrqAssumption DEF FrequencyInv, FrequencyTypeOK, Value
<1>0. Numbered(frqSends[k], frqCount[k].until)
      /\ (frqClock < frqCount[k].until => Windowed(k, frqCount[k], frqSends[k]))
  BY DEF FrequencyInv
<1>1. n \in Nat /\ send \notin frqSends[k] /\ IsFiniteSet(frqSends[k])
  BY <1>0, <1>t, FS_CardinalityType DEF Numbered
<1>2. IsFiniteSet(sends) /\ Cardinality(sends) = n + 1
  BY <1>1, FS_AddElement
<1>3. frqClock < count.until /\ frqCount[k].until <= count.until /\ frqClock >= count.until - FrqWindow[k]
  <2>1. CASE Value(k) = 0 /\ frqClock >= frqCount[k].until
    BY <2>1, <1>t
  <2>2. CASE frqClock < frqCount[k].until
    <3>1. Value(k) >= 1 /\ frqCount[k].until - FrqWindow[k] <= frqClock
      BY <2>2, <1>0, <1>t DEF Windowed, Value
    <3> QED BY <2>2, <3>1, <1>t
  <2> QED BY <2>1, <2>2, <1>t DEF Value
<1>4. Numbered(sends, count.until)
  <2>1. \A x \in frqSends[k] : x[1] < count.until /\ x[2] < n + 1
    <3> SUFFICES ASSUME NEW x \in frqSends[k] PROVE x[1] < count.until /\ x[2] < n + 1
      OBVIOUS
    <3>1. x[1] \in Nat /\ x[2] \in Nat /\ x[1] < frqCount[k].until /\ x[2] < n
      BY <1>0, <1>t DEF Numbered
    <3> HIDE DEF n
    <3> QED BY <3>1, <1>1, <1>3, <1>t
  <2>2. send[1] < count.until /\ send[2] < n + 1
    BY <1>1, <1>3, <1>t
  <2> QED BY <2>1, <2>2, <1>2 DEF Numbered
<1>5. new = old \cup {send} /\ send \notin old
  BY <1>1, <1>3, <1>t
<1>6. IsFiniteSet(old)
  <2>1. old \subseteq frqSends[k]
    OBVIOUS
  <2> QED BY <2>1, <1>1, FS_Subset
<1>7. Cardinality(new) = Cardinality(old) + 1
  <2> HIDE DEF old, new, send
  <2> QED BY <1>5, <1>6, FS_AddElement
<1>8. Cardinality(old) = Value(k)
  <2>1. CASE frqClock < frqCount[k].until
    <3>1. Windowed(k, frqCount[k], frqSends[k])
      BY <2>1, <1>0
    <3>2. Value(k) = frqCount[k].value /\ Value(k) >= 1
      BY <2>1, <3>1, <1>t DEF Value, Windowed
    <3>3. count.until = frqCount[k].until
      BY <3>2
    <3> QED BY <3>1, <3>2, <3>3 DEF Windowed
  <2>2. CASE frqClock >= frqCount[k].until
    <3>1. Value(k) = 0
      BY <2>2, <1>t DEF Value
    <3>2. count.until - FrqWindow[k] = frqClock
      BY <3>1, <1>t
    <3>3. \A x \in frqSends[k] : ~ (x[1] >= count.until - FrqWindow[k])
      <4> SUFFICES ASSUME NEW x \in frqSends[k] PROVE ~ (x[1] >= count.until - FrqWindow[k])
        OBVIOUS
      <4>1. x[1] \in Nat /\ x[1] < frqCount[k].until
        BY <1>0, <1>t DEF Numbered
      <4> QED BY <4>1, <3>2, <2>2, <1>t
    <3>4. old = {}
      BY <3>3
    <3> HIDE DEF old
    <3> QED BY <3>1, <3>4, FS_EmptySet
  <2> QED BY <2>1, <2>2, <1>t
<1>9. count.value = Cardinality(new) /\ count.value \in 1..FrqLimit[k]
  <2> HIDE DEF old, new, send
  <2> QED BY <1>7, <1>8, <1>t
<1>10. count.until - FrqWindow[k] <= frqClock
  BY <1>3, <1>t
<1> QED BY <1>4, <1>9, <1>10 DEF Windowed

LEMMA SendKeeps ==
  ASSUME FrequencyInv, NEW keys \in SUBSET FrqKeys, FrqAllowAll(keys)
  PROVE  FrequencyInv'
<1> DEFINE counts(k) == k \in Limited(keys) /\ Allowed(keys)
           count(k) == [value |-> Value(k) + 1,
                        until |-> IF Value(k) = 0 THEN frqClock + FrqWindow[k] ELSE frqCount[k].until]
           sends(k) == frqSends[k] \cup {<<frqClock, Cardinality(frqSends[k])>>}
<1>t. FrequencyTypeOK /\ frqClock' = frqClock
  BY DEF FrequencyInv, FrqAllowAll
<1>1. \A k \in FrqKeys : counts(k) => frqCount'[k] = count(k) /\ frqSends'[k] = sends(k)
  BY DEF FrqAllowAll, Incremented
<1>2. \A k \in FrqKeys : ~counts(k) => frqCount'[k] = frqCount[k] /\ frqSends'[k] = frqSends[k]
  BY DEF FrqAllowAll, Incremented
<1>3. ASSUME NEW k \in FrqKeys, counts(k)
      PROVE  count(k) \in [value : Nat, until : Nat] /\ sends(k) \in SUBSET (Nat \X Nat)
  <2>1. /\ Value(k) \in Nat /\ frqCount[k].until \in Nat /\ frqClock \in Nat /\ FrqWindow[k] \in Nat
        /\ frqSends[k] \subseteq Nat \X Nat
    BY <1>t, FrqAssumption DEF FrequencyTypeOK, Value
  <2>2. Cardinality(frqSends[k]) \in Nat
    BY FS_CardinalityType DEF FrequencyInv, Numbered
  <2> QED BY <2>1, <2>2
<1>4. FrequencyTypeOK'
  <2>1. frqCount' = [k \in FrqKeys |-> frqCount'[k]] /\ frqSends' = [k \in FrqKeys |-> frqSends'[k]]
    BY DEF FrqAllowAll
  <2>2. \A k \in FrqKeys : frqCount'[k] \in [value : Nat, until : Nat] /\ frqSends'[k] \in SUBSET (Nat \X Nat)
    BY <1>1, <1>2, <1>3, <1>t DEF FrequencyTypeOK
  <2> QED BY <2>1, <2>2, <1>t DEF FrequencyTypeOK
<1>5. ASSUME NEW k \in FrqKeys
      PROVE  /\ Numbered(frqSends'[k], frqCount'[k].until)
             /\ frqClock < frqCount'[k].until => Windowed(k, frqCount'[k], frqSends'[k])
  <2>1. CASE counts(k)
    <3>1. FrqLimit[k] > 0 /\ FrqWindow[k] > 0 /\ Value(k) < FrqLimit[k]
      BY <2>1 DEF Limited, Allowed
    <3>2. /\ frqCount'[k] \in [value : Nat, until : Nat] /\ frqCount'[k].value = Value(k) + 1
          /\ frqCount'[k].until = IF Value(k) = 0 THEN frqClock + FrqWindow[k] ELSE frqCount[k].until
          /\ frqSends'[k] = frqSends[k] \cup {<<frqClock, Cardinality(frqSends[k])>>}
      <4>1. frqCount'[k] = count(k) /\ frqSends'[k] = sends(k) /\ count(k) \in [value : Nat, until : Nat]
        BY <2>1, <1>1, <1>3
      <4> QED BY <4>1
    <3> QED BY <3>1, <3>2, OneMore
  <2>2. CASE ~counts(k)
    BY <2>2, <1>2 DEF FrequencyInv
  <2> QED BY <2>1, <2>2
<1> QED BY <1>4, <1>5, <1>t DEF FrequencyInv, Windowed

LEMMA FrequencyStep == FrequencyInv /\ [FrequencyNext]_frequencyVars => FrequencyInv'
<1> SUFFICES ASSUME FrequencyInv, [FrequencyNext]_frequencyVars PROVE FrequencyInv'
  OBVIOUS
<1>1. CASE FrqTick
  <2>1. FrequencyTypeOK' /\ frqClock \in Nat /\ frqClock' = frqClock + 1 /\ UNCHANGED <<frqCount, frqSends>>
    BY <1>1 DEF FrqTick, FrequencyInv, FrequencyTypeOK
  <2>2. ASSUME NEW k \in FrqKeys, frqClock' < frqCount[k].until
        PROVE  Windowed(k, frqCount[k], frqSends[k])'
    <3>1. /\ frqClock < frqCount[k].until /\ frqCount[k].until - FrqWindow[k] <= frqClock
          /\ frqCount[k].until \in Nat /\ FrqWindow[k] \in Nat
      <4>1. frqCount[k].until \in Nat /\ FrqWindow[k] \in Nat
        BY FrqAssumption DEF FrequencyInv, FrequencyTypeOK
      <4>2. frqClock < frqCount[k].until
        BY <2>1, <2>2, <4>1
      <4> QED BY <4>1, <4>2 DEF FrequencyInv, Windowed
    <3> QED BY <2>1, <2>2, <3>1 DEF FrequencyInv, Windowed
  <2> QED BY <2>1, <2>2 DEF FrequencyInv
<1>2. CASE UNCHANGED frequencyVars
  BY <1>2 DEF frequencyVars, FrequencyInv, FrequencyTypeOK, Windowed
<1> QED BY <1>1, <1>2, SendKeeps DEF FrequencyNext

(* Every key counts exactly the sends let through since its window began,  *)
(* never more than its limit, for any keys, limits and windows and however *)
(* the requests for several keys overlap.                                  *)
THEOREM WindowsAreKept == FrequencySpec => []WindowsHold
<1>1. FrequencyInv => WindowsHold
  <2> SUFFICES ASSUME FrequencyInv, NEW k \in FrqKeys
               PROVE  /\ Value(k) <= FrqLimit[k]
                      /\ frqClock < frqCount[k].until =>
                           Value(k) = Cardinality(SendsSince(k, frqCount[k].until - FrqWindow[k]))
    BY DEF WindowsHold
  <2>1. CASE frqClock < frqCount[k].until
    BY <2>1 DEF FrequencyInv, Windowed, Value, SendsSince
  <2>2. CASE ~(frqClock < frqCount[k].until)
    BY <2>2, FrqAssumption DEF Value
  <2> QED BY <2>1, <2>2
<1> QED BY <1>1, FrqInit, FrequencyStep, PTL DEF FrequencySpec
=============================================================================
