--------------------------- MODULE ReleaseProofs ----------------------------
(***************************************************************************)
(* Theorems about Release, for any runs, versions and attempts: its types, *)
(* the history of main, the pins, the gates and the tags that resolve.     *)
(***************************************************************************)
EXTENDS Release, TLAPS

(* A run under way publishes a version, whose release exists once the run  *)
(* may upload to it, and has a commit at hand.                             *)
RunInv ==
  \A r \in Runs :
    /\ run[r].step # "idle" => run[r].version \in Versions
    /\ run[r].step = "released" => release[run[r].version] # None
    /\ run[r].step \in Running => run[r].local # <<>>

Inv == TypeOK /\ RunInv

Records ==
  [version : Versions \cup {None}, attempt : Nat,
   job : [Gates -> {"todo", "ok", "failed"}],
   libs : Builds \cup {None}, zip : Builds \cup {None},
   step : Steps, local : Commits, sent : SUBSET {"zip", "aar"}]

LEMMA LastTyped ==
  ASSUME NEW c \in Commits, c # <<>>
  PROVE  Last(c) \in Contents
<1>1. Len(c) \in Nat /\ Len(c) # 0
  BY DEF Commits
<1>2. Len(c) \in 1..Len(c)
  BY <1>1
<1> QED
  BY <1>2 DEF Last, Commits

LEMMA AppendTyped ==
  ASSUME NEW c \in Commits, NEW x \in Contents
  PROVE  Append(c, x) \in Commits /\ Append(c, x) # <<>>
<1>1. Len(Append(c, x)) = Len(c) + 1 /\ Len(c) \in Nat
  BY DEF Commits
<1>2. Len(Append(c, x)) # 0
  BY <1>1
<1> QED
  BY <1>2, SMTT(30) DEF Commits

-----------------------------------------------------------------------------
(* Types.                                                                  *)

LEMMA IdleTyped == Idle \in Records
BY DEF Idle, Records, Steps, Gates, Commits

LEMMA InvInit == Init => Inv
<1> SUFFICES ASSUME Init PROVE Inv
  OBVIOUS
<1>1. Content(0, None, None, None) \in Contents
  BY DEF Content, Contents
<1>2. main \in Commits /\ main # <<>>
  BY <1>1 DEF Init, Commits
<1>3. Idle \in Records
  BY IdleTyped
<1>4. run \in [Runs -> Records] /\ \A r \in Runs : run[r].step = "idle"
  BY <1>3 DEF Init, Idle
<1>5. tag \in [Versions -> Commits]
  BY DEF Init, Commits
<1> QED
  BY <1>2, <1>4, <1>5 DEF Init, Inv, TypeOK, RunInv, Records, Running

(* A step of one run changes its record; the others keep theirs.           *)
LEMMA RecordStep ==
  ASSUME Inv, NEW r \in Runs, NEW x \in Records, run' = [run EXCEPT ![r] = x],
         x.step # "idle" => x.version \in Versions,
         x.step \in Running => x.local # <<>>,
         \A v \in Versions : release[v] # None => release'[v] # None,
         x.step = "released" => release'[x.version] # None
  PROVE  run' \in [Runs -> Records] /\ RunInv'
<1>1. run \in [Runs -> Records]
  BY DEF Inv, TypeOK, Records
<1>2. run' \in [Runs -> Records] /\ run'[r] = x
  BY <1>1
<1>3. \A q \in Runs : q # r => run'[q] = run[q]
  BY <1>1
<1>4. ASSUME NEW q \in Runs
      PROVE  /\ run'[q].step # "idle" => run'[q].version \in Versions
             /\ run'[q].step = "released" => release'[run'[q].version] # None
             /\ run'[q].step \in Running => run'[q].local # <<>>
  <2>1. CASE q = r
    BY <1>2, <2>1
  <2>2. CASE q # r
    <3>1. run'[q] = run[q]
      BY <1>3, <2>2
    <3>2. run[q].step # "idle" => run[q].version \in Versions
      BY DEF Inv, RunInv
    <3>3. run[q].step = "released" => release[run[q].version] # None
      BY DEF Inv, RunInv
    <3>4. run[q].step \in Running => run[q].local # <<>>
      BY DEF Inv, RunInv
    <3> QED
      BY <3>1, <3>2, <3>3, <3>4
  <2> QED
    BY <2>1, <2>2
<1> QED
  BY <1>2, <1>4 DEF RunInv

LEMMA RunFacts ==
  ASSUME Inv, NEW r \in Runs
  PROVE  /\ run \in [Runs -> Records] /\ run[r] \in Records
         /\ run[r].step # "idle" => run[r].version \in Versions
         /\ run[r].step \in Running => run[r].local # <<>>
BY DEF Inv, TypeOK, RunInv, Records

(* The steps that touch a run alone.                                       *)
LEMMA RunStepInv ==
  ASSUME Inv, NEW r \in Runs, NEW x \in Records, run' = [run EXCEPT ![r] = x],
         x.step # "idle" => x.version \in Versions,
         x.step \in Running => x.local # <<>>,
         x.step # "released", UNCHANGED <<service, alone>>,
         tested' \subseteq Builds \cup {None}, unitTested' \subseteq Runs
  PROVE  Inv'
<1>1. run' \in [Runs -> Records] /\ RunInv'
  BY RecordStep DEF service
<1> QED
  BY <1>1 DEF Inv, TypeOK, Records, service

LEMMA InvStep ==
  ASSUME Inv, [Next]_vars
  PROVE  Inv'
<1> USE DEF Set
<1>1. CASE Develop
  <2>1. Last(main) \in Contents
    BY LastTyped DEF Inv, TypeOK
  <2>2. [Last(main) EXCEPT !.src = @ + 1] \in Contents
    BY <2>1 DEF Contents
  <2>3. main' \in Commits /\ main' # <<>>
    BY <1>1, <2>2, AppendTyped DEF Develop, Inv, TypeOK
  <2> QED
    BY <1>1, <2>3 DEF Develop, history, Inv, TypeOK, RunInv
<1>2. ASSUME NEW r \in Runs, NEW v \in Versions, Dispatch(r, v)
      PROVE  Inv'
  <2> DEFINE x == [Idle EXCEPT !.version = v, !.attempt = 1, !.step = "needs"]
  <2>2. x \in Records /\ x.step = "needs" /\ x.step \notin Running /\ x.version = v
    <3>1. Idle \in Records
      BY IdleTyped
    <3>2. x \in Records
      BY <3>1 DEF Records, Steps
    <3> QED
      BY <3>1, <3>2 DEF Records, Running
  <2>3. run' = [run EXCEPT ![r] = x] /\ UNCHANGED <<service, history>>
    BY <1>2 DEF Dispatch
  <2> HIDE DEF x
  <2> QED
    BY <2>2, <2>3, RunStepInv DEF history, Inv, TypeOK
<1>3. ASSUME NEW r \in Runs, NEW j \in Gates, JobPasses(r, j)
      PROVE  Inv'
  <2> DEFINE x == run'[r]
  <2>1. run[r] \in Records /\ run[r].step = "needs" /\ run[r].version \in Versions
    BY <1>3, RunFacts DEF JobPasses, MayStart
  <2>2. Build(r) \in Builds
    BY <2>1 DEF Build, Builds, Records
  <2>3. run' = [run EXCEPT ![r] = x] /\ x \in Records
        /\ x.step = "needs" /\ x.step \notin Running /\ x.version = run[r].version
    BY <1>3, <2>1, <2>2, RunFacts DEF JobPasses, Records, Running
  <2>4. tested' \subseteq Builds \cup {None}
    BY <1>3, <2>1 DEF JobPasses, Records, Inv, TypeOK
  <2>5. unitTested' \subseteq Runs
    BY <1>3 DEF JobPasses, Inv, TypeOK
  <2> HIDE DEF x
  <2> QED
    BY <1>3, <2>1, <2>3, <2>4, <2>5, RunStepInv DEF JobPasses
<1>4. ASSUME NEW r \in Runs, NEW j \in Gates, JobFails(r, j)
      PROVE  Inv'
  <2> DEFINE x == run'[r]
  <2>1. run[r] \in Records /\ run[r].step = "needs" /\ run[r].version \in Versions
    BY <1>4, RunFacts DEF JobFails, MayStart
  <2>2. run' = [run EXCEPT ![r] = x] /\ x \in Records
        /\ x.step = "needs" /\ x.step \notin Running /\ x.version = run[r].version
    BY <1>4, <2>1, RunFacts DEF JobFails, Records, Running
  <2> HIDE DEF x
  <2> QED
    BY <1>4, <2>1, <2>2, RunStepInv DEF JobFails, history, Inv, TypeOK
<1>5. ASSUME NEW r \in Runs, Prepare(r)
      PROVE  Inv'
  <2> DEFINE x == run'[r]
  <2>1. run[r] \in Records /\ run[r].step = "needs" /\ run[r].version \in Versions
    BY <1>5, RunFacts DEF Prepare
  <2>2. Pinned(r) \in Contents
    BY <2>1, LastTyped DEF Pinned, Content, Contents, Records, Inv, TypeOK
  <2>3. Append(main, Pinned(r)) \in Commits /\ main \in Commits
        /\ Append(main, Pinned(r)) # <<>> /\ main # <<>>
    BY <2>2, AppendTyped DEF Inv, TypeOK
  <2>4. run' = [run EXCEPT ![r] = x] /\ x \in Records
        /\ x.step = "committed" /\ x.local # <<>> /\ x.version = run[r].version
    BY <1>5, <2>1, <2>3, RunFacts DEF Prepare, Records, Steps, Running
  <2> HIDE DEF x
  <2> QED
    BY <1>5, <2>1, <2>4, RunStepInv DEF Prepare, history, Inv, TypeOK
<1>6. ASSUME NEW r \in Runs, Fail(r)
      PROVE  Inv'
  <2> DEFINE x == run'[r]
  <2>1. run[r] \in Records /\ run[r].version \in Versions
    BY <1>6, RunFacts DEF Fail, Running
  <2>2. run' = [run EXCEPT ![r] = x] /\ x \in Records
        /\ x.step = "failed" /\ x.step \notin Running /\ x.version = run[r].version
    BY <1>6, <2>1, RunFacts DEF Fail, Records, Steps, Running
  <2> HIDE DEF x
  <2> QED
    BY <1>6, <2>1, <2>2, RunStepInv DEF Fail, history, Inv, TypeOK
<1>7. ASSUME NEW r \in Runs, NEW jobs \in SUBSET Gates, Again(r, jobs)
      PROVE  Inv'
  <2>1. run[r] \in Records /\ run[r].version \in Versions
    BY <1>7, RunFacts DEF Again, Concluded
  <2> DEFINE job == [j \in Gates |-> IF j \in jobs THEN "todo" ELSE run[r].job[j]]
  <2>2. job \in [Gates -> {"todo", "ok", "failed"}]
    BY <2>1 DEF Records
  <2>3. run' = [run EXCEPT ![r].step = "needs", ![r].sent = {},
                           ![r].attempt = @ + 1, ![r].job = job]
    BY <1>7 DEF Again
  <2> HIDE DEF job
  <2> DEFINE y == [run[r] EXCEPT !.step = "needs", !.sent = {},
                                 !.attempt = @ + 1, !.job = job]
  <2>4. run' = [run EXCEPT ![r] = y]
    BY <2>3, RunFacts
  <2>5. y \in Records
    <3>1. {} \in SUBSET {"zip", "aar"} /\ "needs" \in Steps
      BY DEF Steps
    <3>2. run[r].attempt + 1 \in Nat
      BY <2>1 DEF Records
    <3> QED
      BY <2>1, <2>2, <3>1, <3>2 DEF Records
  <2>6. y.step = "needs" /\ y.step \notin Running /\ y.version = run[r].version
    BY <2>1 DEF Records, Running
  <2> HIDE DEF y
  <2> QED
    BY <1>7, <2>1, <2>4, <2>5, <2>6, RunStepInv DEF Again, history, Inv, TypeOK
<1>8. ASSUME NEW r \in Runs, PushMain(r)
      PROVE  Inv'
  <2> DEFINE x == run'[r]
  <2>1. run[r] \in Records /\ run[r].version \in Versions /\ run[r].local # <<>>
    BY <1>8, RunFacts DEF PushMain, Running
  <2>2. run' = [run EXCEPT ![r] = x] /\ x \in Records
        /\ x.step = "pushed" /\ x.local # <<>> /\ x.version = run[r].version
    BY <1>8, <2>1, RunFacts DEF PushMain, Records, Steps, Running
  <2>3. run' \in [Runs -> Records] /\ RunInv'
    <3> HIDE DEF x
    <3> QED
      BY <1>8, <2>1, <2>2, RecordStep DEF PushMain
  <2>4. main' \in Commits /\ main' # <<>>
    <3>1. main' = run[r].local /\ run[r].local \in Commits /\ main \in Commits
      BY <1>8, <2>1 DEF PushMain, Records, Inv, TypeOK
    <3>2. Len(main) <= Len(main') /\ main # <<>>
      BY <1>8, <3>1 DEF PushMain, IsPrefix, Inv, TypeOK
    <3>3. Len(main) # 0 /\ Len(main) \in Nat /\ Len(main') \in Nat
      BY <3>1, <3>2 DEF Commits
    <3> QED
      BY <3>1, <3>2, <3>3
  <2> QED
    BY <1>8, <2>3, <2>4 DEF PushMain, history, Inv, TypeOK, Records
<1>9. ASSUME NEW r \in Runs, PushTag(r)
      PROVE  Inv'
  <2> DEFINE x == run'[r]
  <2>1. run[r] \in Records /\ run[r].version \in Versions /\ run[r].local # <<>>
    BY <1>9, RunFacts DEF PushTag, Running
  <2>2. run' = [run EXCEPT ![r] = x] /\ x \in Records
        /\ x.step = "tagged" /\ x.local # <<>> /\ x.version = run[r].version
    BY <1>9, <2>1, RunFacts DEF PushTag, MoveTag, Records, Steps, Running
  <2>3. run' \in [Runs -> Records] /\ RunInv'
    <3> HIDE DEF x
    <3> QED
      BY <1>9, <2>1, <2>2, RecordStep DEF PushTag, MoveTag
  <2>4. tag' \in [Versions -> Commits]
    BY <1>9, <2>1 DEF PushTag, MoveTag, Records, Inv, TypeOK
  <2>5. alone' \in [Runs -> BOOLEAN]
    BY <1>9 DEF PushTag, MoveTag, Inv, TypeOK
  <2> QED
    BY <1>9, <2>3, <2>4, <2>5 DEF PushTag, MoveTag, Inv, TypeOK, Records
<1>10. ASSUME NEW r \in Runs, CreateRelease(r)
       PROVE  Inv'
  <2> DEFINE x == run'[r]
             v == run[r].version
  <2>1. run[r] \in Records /\ v \in Versions /\ run[r].local # <<>>
    BY <1>10, RunFacts DEF CreateRelease, Running
  <2>2. run' = [run EXCEPT ![r] = x] /\ x \in Records
        /\ x.step = "released" /\ x.local # <<>> /\ x.version = v
    BY <1>10, <2>1, RunFacts DEF CreateRelease, Records, Steps, Running
  <2>3. [zip |-> None, aar |-> None] \in Assets
    BY DEF Assets
  <2>4. release' \in [Versions -> {None} \cup Assets]
    BY <1>10, <2>1, <2>3 DEF CreateRelease, Inv, TypeOK
  <2>5. \A u \in Versions : release[u] # None => release'[u] # None
    BY <1>10, <2>1 DEF CreateRelease, Inv, TypeOK
  <2>6. release'[v] # None
    BY <1>10, <2>1, <2>3, ReleaseAssumption DEF CreateRelease, Inv, TypeOK
  <2>7. run' \in [Runs -> Records] /\ RunInv'
    <3> HIDE DEF x, v
    <3> QED
      BY <2>1, <2>2, <2>5, <2>6, RecordStep
  <2> QED
    BY <1>10, <2>4, <2>7 DEF CreateRelease, history, Inv, TypeOK, Records
<1>11. ASSUME NEW r \in Runs, NEW k \in {"zip", "aar"}, Upload(r, k) \/ UploadFails(r, k)
       PROVE  Inv'
  <2> DEFINE x == run'[r]
             v == run[r].version
  <2>1. run[r] \in Records /\ v \in Versions /\ run[r].local # <<>>
    BY <1>11, RunFacts DEF Upload, UploadFails, PutAsset, Running
  <2>2. PICK b \in Builds \cup {None} : PutAsset(r, k, b)
    BY <1>11, <2>1 DEF Upload, UploadFails, Asset, Records
  <2>3. run' = [run EXCEPT ![r] = x] /\ x \in Records /\ x.version = v
        /\ x.step # "idle" /\ x.local # <<>>
    <3>1. CASE Upload(r, k)
      BY <3>1, <2>1, RunFacts DEF Upload, PutAsset, Records, Steps, Running
    <3>2. CASE UploadFails(r, k)
      BY <3>2, <2>1, RunFacts DEF UploadFails, PutAsset, Records, Steps, Running
    <3> QED
      BY <1>11, <3>1, <3>2
  <2>4. release[v] # None
    BY <2>2 DEF PutAsset, Inv, RunInv
  <2>5. release[v] \in Assets
    BY <2>1, <2>4 DEF Inv, TypeOK
  <2>6. [release[v] EXCEPT ![k] = b] \in Assets
    BY <2>5 DEF Assets
  <2>7. release' \in [Versions -> {None} \cup Assets] /\ release'[v] # None
    BY <2>1, <2>2, <2>6, ReleaseAssumption DEF PutAsset, Inv, TypeOK
  <2>8. \A u \in Versions : release[u] # None => release'[u] # None
    BY <2>1, <2>2, <2>7 DEF PutAsset, Inv, TypeOK
  <2>9. run' \in [Runs -> Records] /\ RunInv'
    <3> HIDE DEF x, v
    <3> QED
      BY <2>1, <2>3, <2>7, <2>8, RecordStep
  <2>10. alone' \in [Runs -> BOOLEAN]
    BY <2>2 DEF PutAsset, Inv, TypeOK
  <2> QED
    BY <2>2, <2>7, <2>9, <2>10 DEF PutAsset, Inv, TypeOK, Records
<1>12. ASSUME NEW r \in Runs, PublishMaven(r)
       PROVE  Inv'
  <2> DEFINE x == run'[r]
  <2>1. run[r] \in Records /\ run[r].version \in Versions /\ run[r].local # <<>>
    BY <1>12, RunFacts DEF PublishMaven, PutPackage, Running
  <2>2. run' = [run EXCEPT ![r] = x] /\ x \in Records
        /\ x.step = "done" /\ x.step \notin Running /\ x.version = run[r].version
    BY <1>12, <2>1, RunFacts, ZenonT(60) DEF PublishMaven, PutPackage, Records, Steps, Running
  <2>3. run' \in [Runs -> Records] /\ RunInv'
    <3> HIDE DEF x
    <3> QED
      BY <1>12, <2>1, <2>2, RecordStep DEF PublishMaven, PutPackage
  <2>4. Last(run[r].local).src \in Nat
    BY <2>1, LastTyped DEF Contents, Records
  <2>5. maven' \in [Versions -> {None} \cup Packages]
    BY <1>12, <2>1, <2>4 DEF PublishMaven, PutPackage, Packages, Records, Inv, TypeOK
  <2> QED
    BY <1>12, <2>3, <2>5 DEF PublishMaven, PutPackage, history, Inv, TypeOK, Records
<1>13. CASE UNCHANGED vars
  BY <1>13 DEF vars, service, history, Inv, TypeOK, RunInv
<1>14. ASSUME NEW r \in Runs, RerunFailed(r) \/ RerunAll(r)
       PROVE  Inv'
  BY <1>7, <1>14 DEF RerunFailed, RerunAll
<1> QED
  BY <1>1, <1>2, <1>3, <1>4, <1>5, <1>6, <1>8, <1>9, <1>10, <1>11, <1>12, <1>13,
     <1>14 DEF Next

(* Release keeps its types, for any runs, versions and attempts.           *)
THEOREM ReleaseTyping == Spec => []TypeOK
<1>1. Inv => TypeOK
  BY DEF Inv
<1> QED
  BY InvInit, InvStep, <1>1, PTL DEF Spec

-----------------------------------------------------------------------------
(* Tags.                                                                   *)

(* One commit is an ancestor of another: commit for commit the same.       *)
LEMMA PrefixByIndex ==
  ASSUME NEW c \in Commits, NEW d \in Commits
  PROVE  IsPrefix(c, d) <=>
           Len(c) <= Len(d) /\ \A i \in 1..Len(c) : c[i] = d[i]
<1>1. CASE Len(c) <= Len(d)
  <2> DEFINE e == SubSeq(d, 1, Len(c))
  <2>1. Len(c) \in Nat /\ Len(d) \in Nat
    BY DEF Commits
  <2>2. e \in Commits /\ Len(e) = Len(c) /\ \A i \in 1..Len(c) : e[i] = d[i]
    BY <1>1, <2>1 DEF Commits
  <2>3. SubSeq(c, 1, Len(c)) = c
    BY <2>1 DEF Commits
  <2>4. c = e <=> \A i \in 1..Len(c) : c[i] = e[i]
    BY <2>1, <2>2 DEF Commits
  <2> HIDE DEF e
  <2>5. IsPrefix(c, d) <=> c = e
    BY <1>1, <2>3 DEF IsPrefix, e
  <2> QED
    BY <1>1, <2>2, <2>4, <2>5
<1>2. CASE ~(Len(c) <= Len(d))
  BY <1>2 DEF IsPrefix
<1> QED
  BY <1>1, <1>2

LEMMA PrefixRefl == \A c \in Commits : IsPrefix(c, c)
BY PrefixByIndex DEF Commits

LEMMA PrefixTrans ==
  ASSUME NEW c \in Commits, NEW d \in Commits, NEW e \in Commits,
         IsPrefix(c, d), IsPrefix(d, e)
  PROVE  IsPrefix(c, e)
<1>1. Len(c) \in Nat /\ Len(d) \in Nat /\ Len(e) \in Nat
  BY DEF Commits
<1>2. Len(c) <= Len(d) /\ \A i \in 1..Len(c) : c[i] = d[i]
  BY PrefixByIndex
<1>3. Len(d) <= Len(e) /\ \A i \in 1..Len(d) : d[i] = e[i]
  BY PrefixByIndex
<1>4. \A i \in 1..Len(c) : i \in 1..Len(d) /\ c[i] = e[i]
  BY <1>1, <1>2, <1>3
<1> QED
  BY <1>1, <1>2, <1>3, <1>4, PrefixByIndex

LEMMA PrefixAppend ==
  ASSUME NEW c \in Commits, NEW x \in Contents
  PROVE  IsPrefix(c, Append(c, x))
<1> DEFINE d == Append(c, x)
<1>1. d \in Commits /\ Len(c) \in Nat /\ Len(d) = Len(c) + 1
  BY AppendTyped DEF Commits
<1>2. \A i \in 1..Len(c) : c[i] = d[i]
  BY <1>1 DEF Commits
<1> HIDE DEF d
<1>3. Len(c) <= Len(d)
  BY <1>1
<1>4. IsPrefix(c, d)
  BY <1>1, <1>2, <1>3, PrefixByIndex
<1> QED
  BY <1>4 DEF d

(* The commit a run has pushed stays in main's history.                    *)
TagInv ==
  /\ TagOnMain
  /\ \A r \in Runs : run[r].step = "pushed" => IsPrefix(run[r].local, main)

LEMMA TagInit == Init => TagInv
<1> SUFFICES ASSUME Init PROVE TagInv
  OBVIOUS
<1>1. main \in Commits /\ <<>> \in Commits /\ Len(<<>>) = 0
  BY InvInit DEF Inv, TypeOK, Commits
<1>2. IsPrefix(<<>>, main)
  <2> DEFINE e == <<>>
  <2>1. e \in Commits /\ Len(e) = 0 /\ Len(main) \in Nat
    BY <1>1 DEF Commits
  <2> HIDE DEF e
  <2>2. Len(e) <= Len(main) /\ \A i \in 1..Len(e) : e[i] = main[i]
    BY <2>1
  <2>3. IsPrefix(e, main)
    BY <1>1, <2>1, <2>2, PrefixByIndex
  <2> QED
    BY <2>3 DEF e
<1> QED
  BY <1>2 DEF Init, Idle, TagInv, TagOnMain

(* Main only ever moves forward: a push is a fast-forward.                 *)
LEMMA MainGrows ==
  ASSUME Inv, [Next]_vars
  PROVE  IsPrefix(main, main')
<1>1. main \in Commits
  BY DEF Inv, TypeOK
<1>2. CASE Develop
  <2>1. [Last(main) EXCEPT !.src = @ + 1] \in Contents
    <3>1. Last(main) \in Contents
      BY LastTyped DEF Inv, TypeOK
    <3> QED
      BY <3>1 DEF Contents
  <2> QED
    BY <1>1, <1>2, <2>1, PrefixAppend DEF Develop
<1>3. ASSUME NEW r \in Runs, PushMain(r)
      PROVE  IsPrefix(main, main')
  BY <1>3 DEF PushMain
<1>4. CASE UNCHANGED main
  BY <1>1, <1>4, PrefixRefl
<1> QED
  BY <1>2, <1>3, <1>4, ZenonT(60)
  DEF Next, vars, service, Dispatch, JobPasses, JobFails, Prepare, PushTag, MoveTag,
      CreateRelease, Upload, UploadFails, PutAsset, PublishMaven, PutPackage, Fail,
      RerunFailed, RerunAll, Again

(* Only a push puts a run past its push, and it leaves main at its commit. *)
LEMMA PushedIsMain ==
  ASSUME Inv, [Next]_vars, NEW r \in Runs, run'[r].step = "pushed"
  PROVE  \/ run[r].step = "pushed" /\ run'[r].local = run[r].local
         \/ main' = run'[r].local
<1> USE DEF Set
<1>0. run \in [Runs -> Records]
  BY RunFacts DEF Inv, TypeOK, Records
<1>1. ASSUME NEW q \in Runs, PushMain(q)
      PROVE  \/ run[r].step = "pushed" /\ run'[r].local = run[r].local
             \/ main' = run'[r].local
  BY <1>0, <1>1 DEF PushMain, Records
<1>3. CASE UNCHANGED run
  BY <1>3
<1>4. ASSUME NEW q \in Runs, NEW v \in Versions, Dispatch(q, v)
      PROVE  run'[r] = run[r]
  BY <1>0, <1>4 DEF Dispatch, Idle
<1>5. ASSUME NEW q \in Runs, NEW j \in Gates, JobPasses(q, j) \/ JobFails(q, j)
      PROVE  run'[r] = run[r]
  BY <1>0, <1>5 DEF JobPasses, JobFails, MayStart, Records
<1>6. ASSUME NEW q \in Runs, Prepare(q) \/ PushTag(q) \/ CreateRelease(q)
                              \/ PublishMaven(q) \/ Fail(q)
      PROVE  run'[r] = run[r]
  <2>1. CASE Prepare(q)
    BY <1>0, <2>1 DEF Prepare, Records
  <2>2. CASE PushTag(q)
    BY <1>0, <2>2 DEF PushTag, MoveTag, Records
  <2>3. CASE CreateRelease(q)
    BY <1>0, <2>3 DEF CreateRelease, Records
  <2>4. CASE PublishMaven(q)
    BY <1>0, <2>4 DEF PublishMaven, PutPackage, Records
  <2>5. CASE Fail(q)
    BY <1>0, <2>5 DEF Fail, Records
  <2> QED
    BY <1>6, <2>1, <2>2, <2>3, <2>4, <2>5
<1>7. ASSUME NEW q \in Runs, NEW k \in {"zip", "aar"}, Upload(q, k) \/ UploadFails(q, k)
      PROVE  run'[r] = run[r]
  BY <1>0, <1>7 DEF Upload, UploadFails, PutAsset, Records
<1>8. ASSUME NEW q \in Runs, RerunFailed(q) \/ RerunAll(q)
      PROVE  run'[r] = run[r]
  BY <1>0, <1>8 DEF RerunFailed, RerunAll, Again, Records
<1>9. CASE run'[r] = run[r]
  BY <1>9
<1> QED
  BY <1>1, <1>3, <1>4, <1>5, <1>6, <1>7, <1>8, <1>9 DEF Next, vars, Develop

LEMMA TagStep ==
  ASSUME Inv, TagInv, [Next]_vars
  PROVE  TagInv'
<1>0. Inv' /\ main \in Commits /\ main' \in Commits /\ IsPrefix(main, main')
  BY InvStep, MainGrows DEF Inv, TypeOK
<1>1. ASSUME NEW r \in Runs, run'[r].step = "pushed"
      PROVE  IsPrefix(run'[r].local, main')
  <2>1. run[r].local \in Commits /\ run'[r].local \in Commits
    BY <1>0 DEF Inv, TypeOK
  <2>2. CASE run[r].step = "pushed" /\ run'[r].local = run[r].local
    BY <1>0, <2>1, <2>2, PrefixTrans DEF TagInv
  <2>3. CASE main' = run'[r].local
    BY <1>0, <2>3, PrefixRefl
  <2> QED
    BY <1>1, <2>2, <2>3, PushedIsMain
<1>2. ASSUME NEW v \in Versions
      PROVE  IsPrefix(tag'[v], main')
  <2>1. tag[v] \in Commits /\ IsPrefix(tag[v], main)
    BY DEF TagInv, TagOnMain, Inv, TypeOK
  <2>2. CASE tag'[v] = tag[v]
    BY <1>0, <2>1, <2>2, PrefixTrans
  <2>3. ASSUME NEW r \in Runs, PushTag(r)
        PROVE  IsPrefix(tag'[v], main')
    <3>1. IsPrefix(run[r].local, main) /\ main' = main
      BY <2>3 DEF PushTag, MoveTag, TagInv
    <3>2. tag'[v] \in {tag[v], run[r].local}
      BY <2>3 DEF PushTag, MoveTag, Inv, TypeOK
    <3> QED
      BY <2>1, <3>1, <3>2
  <2> QED
    BY <2>2, <2>3, ZenonT(60)
    DEF Next, vars, service, Develop, Dispatch, JobPasses, JobFails, Prepare,
        PushMain, CreateRelease, Upload, UploadFails, PutAsset, PublishMaven,
        PutPackage, Fail, RerunFailed, RerunAll, Again
<1> QED
  BY <1>1, <1>2 DEF TagInv, TagOnMain

(* Whatever a tag points to is in main's history, for any runs, versions   *)
(* and attempts, in every order of their pushes.                           *)
THEOREM TagsOnMain == Spec => []TagOnMain
<1>1. TagInv => TagOnMain
  BY DEF TagInv
<1> QED
  BY InvInit, InvStep, TagInit, TagStep, <1>1, PTL DEF Spec

-----------------------------------------------------------------------------
(* Gates and pins.                                                         *)

Gated(b) == b[1] \in unitTested /\ b \in tested

(* What a run has to show for each gate that passed, and for its step: a   *)
(* run that publishes has passed them all, and pins its own build.         *)
GoodRun(r) ==
  LET x == run[r] IN
  /\ x.job["test"] = "ok" => r \in unitTested
  /\ x.job["android"] = "ok" => x.libs[1] = r
  /\ x.job["ios"] = "ok" => x.zip[1] = r
  /\ x.job["device"] = "ok" =>
       x.job["android"] = "ok" /\ x.libs \in tested
  /\ x.step \in Running => \A j \in Gates : x.job[j] = "ok"
  /\ x.step \in {"committed", "pushed"} =>
       /\ Last(x.local).version = x.version
       /\ Last(x.local).checksum = x.zip /\ Last(x.local).swift = x.zip

TagsGood ==
  \A v \in Versions :
    tag[v] # <<>> => /\ Last(tag[v]).version = v
                     /\ Last(tag[v]).checksum = Last(tag[v]).swift
                     /\ Last(tag[v]).checksum[1] \in unitTested

AarsGood ==
  \A v \in Versions :
    release[v] # None /\ release[v].aar # None => Gated(release[v].aar)

MavenGood ==
  \A v \in Versions :
    maven[v] # None /\ maven[v][1] # None => Gated(maven[v][1])

GateInv == (\A r \in Runs : GoodRun(r)) /\ TagsGood /\ AarsGood /\ MavenGood

LEMMA GateInvImplies == GateInv => PinIsWhole /\ BinariesWereGated
<1> SUFFICES ASSUME GateInv PROVE PinIsWhole /\ BinariesWereGated
  OBVIOUS
<1>1. PinIsWhole
  BY DEF GateInv, TagsGood, PinIsWhole
<1>2. BinariesWereGated
  BY DEF GateInv, TagsGood, AarsGood, MavenGood, Gated, BinariesWereGated
<1> QED
  BY <1>1, <1>2

LEMMA GateInit == Init => GateInv
BY DEF Init, Idle, GateInv, GoodRun, TagsGood, AarsGood, MavenGood, Running, Gates

(* A run that publishes has libraries that were tested.                    *)
LEMMA LibsGated ==
  ASSUME GateInv, NEW r \in Runs, run[r].step \in Running
  PROVE  Gated(run[r].libs) /\ run[r].zip[1] \in unitTested
BY DEF GateInv, GoodRun, Gated, Gates

(* A step of one run keeps the others good, for histories only grow.       *)
LEMMA OthersGood ==
  ASSUME GateInv, NEW r, \A q \in Runs \ {r} : run'[q] = run[q],
         tested \subseteq tested', unitTested \subseteq unitTested'
  PROVE  \A q \in Runs \ {r} : GoodRun(q)'
BY DEF GateInv, GoodRun

LEMMA TagsStayGood ==
  ASSUME GateInv, UNCHANGED tag, unitTested \subseteq unitTested'
  PROVE  TagsGood'
BY DEF GateInv, TagsGood

LEMMA AarsStayGood ==
  ASSUME GateInv, UNCHANGED release,
         tested \subseteq tested', unitTested \subseteq unitTested'
  PROVE  AarsGood'
BY DEF GateInv, AarsGood, Gated

LEMMA MavenStaysGood ==
  ASSUME GateInv, UNCHANGED maven,
         tested \subseteq tested', unitTested \subseteq unitTested'
  PROVE  MavenGood'
BY DEF GateInv, MavenGood, Gated

(* The steps of a run that touch neither the service nor the gates.        *)
LEMMA OwnStep ==
  ASSUME GateInv, NEW r \in Runs, \A q \in Runs \ {r} : run'[q] = run[q],
         UNCHANGED <<tag, release, maven>>,
         tested \subseteq tested', unitTested \subseteq unitTested',
         GoodRun(r)'
  PROVE  GateInv'
<1>1. \A q \in Runs : GoodRun(q)'
  BY OthersGood
<1> QED
  BY <1>1, TagsStayGood, AarsStayGood, MavenStaysGood DEF GateInv

(* A run that goes on to its next step changes nothing else of its record. *)
LEMMA NextStep ==
  ASSUME Inv, GateInv, NEW r \in Runs, run[r].step \in Running,
         NEW s, run' = [run EXCEPT ![r].step = s],
         s = "pushed" => run[r].step = "committed", s # "committed",
         UNCHANGED <<tested, unitTested>>
  PROVE  (\A q \in Runs : GoodRun(q)') /\ \A q \in Runs \ {r} : run'[q] = run[q]
<1>1. run \in [Runs -> Records] /\ run[r] \in Records
  BY RunFacts
<1>2. \A q \in Runs \ {r} : run'[q] = run[q]
  BY <1>1
<1>3. /\ run'[r].step = s
      /\ run'[r].job = run[r].job /\ run'[r].libs = run[r].libs
      /\ run'[r].zip = run[r].zip /\ run'[r].local = run[r].local
      /\ run'[r].version = run[r].version
  BY <1>1 DEF Records
<1>4. GoodRun(r)'
  BY <1>3 DEF GateInv, GoodRun
<1> QED
  BY <1>2, <1>4, OthersGood

LEMMA GateJob ==
  ASSUME Inv, GateInv, NEW r \in Runs, NEW j \in Gates, JobPasses(r, j) \/ JobFails(r, j)
  PROVE  GateInv'
<1>1. run \in [Runs -> Records] /\ run[r] \in Records /\ run[r].step = "needs"
      /\ run[r].job[j] = "todo" /\ (j = "device" => run[r].job["android"] = "ok")
  BY RunFacts DEF JobPasses, JobFails, MayStart
<1>2. /\ \A q \in Runs \ {r} : run'[q] = run[q]
      /\ run'[r].step = "needs"
      /\ tested \subseteq tested' /\ unitTested \subseteq unitTested'
      /\ UNCHANGED service
  BY <1>1 DEF JobPasses, JobFails, Records, history, service
<1>3. CASE JobFails(r, j)
  <2>1. /\ \A i \in Gates : run'[r].job[i] = IF i = j THEN "failed" ELSE run[r].job[i]
        /\ run'[r].libs = run[r].libs /\ run'[r].zip = run[r].zip
    BY <1>1, <1>3 DEF JobFails, Records
  <2>2. GoodRun(r)'
    BY <1>1, <1>2, <2>1 DEF GateInv, GoodRun, Running, Gates
  <2> QED
    BY <1>2, <2>2, OwnStep DEF service
<1>4. CASE JobPasses(r, j)
  <2>1. /\ \A i \in Gates : run'[r].job[i] = IF i = j THEN "ok" ELSE run[r].job[i]
        /\ run'[r].libs = IF j = "android" THEN Build(r) ELSE run[r].libs
        /\ run'[r].zip = IF j = "ios" THEN Build(r) ELSE run[r].zip
    BY <1>1, <1>4 DEF JobPasses, Records
  <2>2. Build(r)[1] = r
    BY DEF Build
  <2>3. j = "test" => r \in unitTested'
    BY <1>4 DEF JobPasses
  <2>4. j = "device" => run[r].libs \in tested'
    BY <1>4 DEF JobPasses
  <2>5. GoodRun(r)'
    BY <1>1, <1>2, <2>1, <2>2, <2>3, <2>4 DEF GateInv, GoodRun, Running, Gates
  <2> QED
    BY <1>2, <2>5, OwnStep DEF service
<1> QED
  BY <1>3, <1>4

LEMMA GatePrepare ==
  ASSUME Inv, GateInv, NEW r \in Runs, Prepare(r)
  PROVE  GateInv'
<1>1. run \in [Runs -> Records] /\ run[r] \in Records /\ main \in Commits
  BY RunFacts DEF Inv, TypeOK
<1>2. /\ \A q \in Runs \ {r} : run'[q] = run[q]
      /\ run'[r].step = "committed"
      /\ run'[r].job = run[r].job /\ run'[r].libs = run[r].libs
      /\ run'[r].zip = run[r].zip /\ run'[r].version = run[r].version
      /\ run'[r].local = IF Pinned(r) = Last(main) THEN main ELSE Append(main, Pinned(r))
  BY <1>1 DEF Prepare, Records
<1>3. Last(run'[r].local) = Pinned(r)
  <2>1. Last(Append(main, Pinned(r))) = Pinned(r)
    <3>1. Len(Append(main, Pinned(r))) = Len(main) + 1 /\ Len(main) \in Nat
      BY <1>1 DEF Commits
    <3>2. Append(main, Pinned(r))[Len(main) + 1] = Pinned(r)
      BY <1>1 DEF Commits
    <3> QED
      BY <3>1, <3>2 DEF Last
  <2> QED
    BY <1>2, <2>1
<1>4. /\ Pinned(r).version = run[r].version
      /\ Pinned(r).checksum = run[r].zip /\ Pinned(r).swift = run[r].zip
  BY DEF Pinned, Content
<1>5. \A j \in Gates : run[r].job[j] = "ok"
  BY DEF Prepare, Needs
<1>6. UNCHANGED <<service, tested, unitTested>>
  BY DEF Prepare, history
<1>7. GoodRun(r)'
  BY <1>2, <1>3, <1>4, <1>5, <1>6 DEF GateInv, GoodRun
<1> QED
  BY <1>2, <1>6, <1>7, OwnStep DEF service

LEMMA GateTag ==
  ASSUME Inv, GateInv, NEW r \in Runs, PushTag(r)
  PROVE  GateInv'
<1>1. run[r].step = "pushed" /\ run[r].version \in Versions
  BY RunFacts DEF PushTag
<1>2. /\ tag' = [tag EXCEPT ![run[r].version] = run[r].local]
      /\ run' = [run EXCEPT ![r].step = "tagged"]
      /\ UNCHANGED <<release, maven, tested, unitTested>>
  BY DEF PushTag, MoveTag, Set
<1>3. \A q \in Runs : GoodRun(q)'
  BY <1>1, <1>2, NextStep DEF Running
<1>4. TagsGood'
  <2>1. run[r].zip[1] \in unitTested
    BY <1>1, LibsGated DEF Running
  <2>2. /\ Last(run[r].local).version = run[r].version
        /\ Last(run[r].local).checksum = run[r].zip
        /\ Last(run[r].local).swift = run[r].zip
    BY <1>1 DEF GateInv, GoodRun
  <2>3. tag \in [Versions -> Commits]
    BY DEF Inv, TypeOK
  <2> SUFFICES ASSUME NEW v \in Versions, tag'[v] # <<>>
               PROVE  /\ Last(tag'[v]).version = v
                      /\ Last(tag'[v]).checksum = Last(tag'[v]).swift
                      /\ Last(tag'[v]).checksum[1] \in unitTested'
    BY DEF TagsGood
  <2>4. CASE v = run[r].version
    <3>1. tag'[v] = run[r].local
      BY <1>2, <2>3, <2>4
    <3> QED
      BY <1>2, <2>1, <2>2, <2>4, <3>1
  <2>5. CASE v # run[r].version
    <3>1. tag'[v] = tag[v]
      BY <1>2, <2>3, <2>5
    <3> QED
      BY <1>2, <3>1 DEF GateInv, TagsGood
  <2> QED
    BY <2>4, <2>5
<1> QED
  BY <1>2, <1>3, <1>4, AarsStayGood, MavenStaysGood DEF GateInv

LEMMA GateRelease ==
  ASSUME Inv, GateInv, NEW r \in Runs, CreateRelease(r)
  PROVE  GateInv'
<1>1. run[r].step = "tagged" /\ run[r].version \in Versions
  BY RunFacts DEF CreateRelease
<1>2. /\ release' = [release EXCEPT ![run[r].version] =
                      IF @ = None THEN [zip |-> None, aar |-> None] ELSE @]
      /\ run' = [run EXCEPT ![r].step = "released"]
      /\ UNCHANGED <<tag, maven, tested, unitTested>>
  BY DEF CreateRelease, Set, history
<1>3. \A q \in Runs : GoodRun(q)'
  BY <1>1, <1>2, NextStep DEF Running
<1>4. ASSUME NEW v \in Versions, release'[v] # None, release'[v].aar # None
      PROVE  release'[v] = release[v]
  BY <1>2, <1>4 DEF Inv, TypeOK
<1>5. AarsGood'
  BY <1>2, <1>4 DEF GateInv, AarsGood, Gated
<1> QED
  BY <1>2, <1>3, <1>5, TagsStayGood, MavenStaysGood DEF GateInv

(* What an upload leaves of a release.                                     *)
LEMMA AssetPut ==
  ASSUME Inv, NEW r \in Runs, NEW k \in {"zip", "aar"}, NEW b, PutAsset(r, k, b)
  PROVE  /\ release[run[r].version] \in Assets
         /\ \A v \in Versions \ {run[r].version} : release'[v] = release[v]
         /\ release'[run[r].version].zip =
              IF k = "zip" THEN b ELSE release[run[r].version].zip
         /\ release'[run[r].version].aar =
              IF k = "aar" THEN b ELSE release[run[r].version].aar
<1> DEFINE v == run[r].version
<1>1. v \in Versions /\ release[v] # None
  BY RunFacts DEF PutAsset, Inv, RunInv
<1>2. release \in [Versions -> {None} \cup Assets] /\ release[v] \in Assets
  BY <1>1 DEF Inv, TypeOK
<1>3. release' = [release EXCEPT ![v] = [release[v] EXCEPT ![k] = b]]
  BY <1>2 DEF PutAsset
<1>4. release'[v] = [release[v] EXCEPT ![k] = b]
  BY <1>1, <1>2, <1>3
<1>5. \A u \in Versions \ {v} : release'[u] = release[u]
  BY <1>2, <1>3
<1> QED
  BY <1>2, <1>4, <1>5 DEF Assets

LEMMA GateUpload ==
  ASSUME Inv, Inv', GateInv, NEW r \in Runs, NEW k \in {"zip", "aar"},
         Upload(r, k) \/ UploadFails(r, k)
  PROVE  GateInv'
<1> DEFINE v == run[r].version
<1>1. PICK b : PutAsset(r, k, b) /\ (k = "aar" => b \in {run[r].libs, None})
  BY DEF Upload, UploadFails, Asset
<1>2. run[r].step = "released" /\ v \in Versions /\ run \in [Runs -> Records]
      /\ run[r] \in Records /\ UNCHANGED <<tag, maven, tested, unitTested>>
  BY <1>1, RunFacts DEF PutAsset
<1>3. /\ \A q \in Runs \ {r} : run'[q] = run[q]
      /\ run'[r].step \in {"released", "uploaded", "failed"}
      /\ run'[r].job = run[r].job /\ run'[r].libs = run[r].libs
      /\ run'[r].zip = run[r].zip
  <2>1. CASE Upload(r, k)
    BY <1>2, <2>1 DEF Upload, Records
  <2>2. CASE UploadFails(r, k)
    BY <1>2, <2>2 DEF UploadFails, Set, Records
  <2> QED
    BY <2>1, <2>2
<1>4. GoodRun(r)'
  BY <1>2, <1>3 DEF GateInv, GoodRun, Running
<1>5. \A q \in Runs : GoodRun(q)'
  BY <1>2, <1>3, <1>4, OthersGood
<1>6. AarsGood'
  <2> SUFFICES ASSUME NEW u \in Versions, release'[u] # None, release'[u].aar # None
               PROVE  Gated(release'[u].aar)
    BY <1>2 DEF AarsGood, Gated
  <2>1. CASE u = v /\ k = "aar"
    <3>1. release'[u].aar = run[r].libs
      BY <1>1, <2>1, AssetPut
    <3>2. Gated(run[r].libs)
      BY <1>2, LibsGated DEF Running
    <3> QED
      BY <3>1, <3>2
  <2>2. CASE u = v /\ k # "aar"
    <3>1. release'[u].aar = release[u].aar /\ release[u] # None
      BY <1>1, <2>2, AssetPut, ReleaseAssumption
    <3> QED
      BY <3>1 DEF GateInv, AarsGood
  <2>3. CASE u # v
    BY <1>1, <2>3, AssetPut DEF GateInv, AarsGood
  <2> QED
    BY <2>1, <2>2, <2>3
<1> QED
  BY <1>2, <1>5, <1>6, TagsStayGood, MavenStaysGood DEF GateInv

LEMMA GateMaven ==
  ASSUME Inv, GateInv, NEW r \in Runs, PublishMaven(r)
  PROVE  GateInv'
<1>1. run[r].step = "uploaded"
  BY DEF PublishMaven, PutPackage
<1>2. /\ maven' = [maven EXCEPT ![run[r].version] = <<run[r].libs, Last(run[r].local).src>>]
      /\ run' = [run EXCEPT ![r].step = "done"]
      /\ UNCHANGED <<tag, release, tested, unitTested>>
  BY DEF PublishMaven, PutPackage, Set, history
<1>3. \A q \in Runs : GoodRun(q)'
  BY <1>1, <1>2, NextStep DEF Running
<1>4. Gated(run[r].libs)
  BY <1>1, LibsGated DEF Running
<1>5. ASSUME NEW v \in Versions
      PROVE  maven'[v] = maven[v] \/ maven'[v][1] = run[r].libs
  <2>1. <<run[r].libs, Last(run[r].local).src>>[1] = run[r].libs
    OBVIOUS
  <2> QED
    BY <1>2, <2>1 DEF Inv, TypeOK
<1>6. MavenGood'
  BY <1>2, <1>4, <1>5 DEF GateInv, MavenGood, Gated
<1> QED
  BY <1>2, <1>3, <1>6, TagsStayGood, AarsStayGood DEF GateInv

(* The failed jobs of a run, or all: never android's alone of a run whose  *)
(* device job passed.                                                      *)
LEMMA GateAgain ==
  ASSUME Inv, GateInv, NEW r \in Runs, RerunFailed(r) \/ RerunAll(r)
  PROVE  GateInv'
<1>1. PICK jobs : Again(r, jobs) /\ ("android" \in jobs => "device" \in jobs)
  <2>1. CASE RerunFailed(r)
    BY <2>1 DEF RerunFailed, Failed, Gates
  <2>2. CASE RerunAll(r)
    BY <2>2 DEF RerunAll, Gates
  <2> QED
    BY <2>1, <2>2
<1>2. run \in [Runs -> Records] /\ run[r] \in Records
  BY RunFacts
<1>3. /\ \A q \in Runs \ {r} : run'[q] = run[q]
      /\ run'[r].step = "needs"
      /\ \A j \in Gates : run'[r].job[j] = IF j \in jobs THEN "todo" ELSE run[r].job[j]
      /\ run'[r].libs = run[r].libs /\ run'[r].zip = run[r].zip
  BY <1>1, <1>2 DEF Again, Records
<1>4. UNCHANGED <<service, tested, unitTested>>
  BY <1>1 DEF Again, history
<1>5. GoodRun(r)'
  BY <1>1, <1>3, <1>4 DEF GateInv, GoodRun, Running, Gates
<1> QED
  BY <1>3, <1>4, <1>5, OwnStep DEF service

LEMMA GateStep ==
  ASSUME Inv, GateInv, [Next]_vars
  PROVE  GateInv'
<1>0. Inv'
  BY InvStep
<1>1. CASE Develop
  BY <1>1 DEF Develop, history, GateInv, GoodRun, TagsGood, AarsGood, MavenGood, Gated
<1>2. ASSUME NEW r \in Runs, NEW v \in Versions, Dispatch(r, v)
      PROVE  GateInv'
  <2>1. run \in [Runs -> Records]
    BY RunFacts
  <2>2. /\ \A q \in Runs \ {r} : run'[q] = run[q]
        /\ run'[r].step = "needs" /\ \A j \in Gates : run'[r].job[j] = "todo"
        /\ UNCHANGED <<service, tested, unitTested>>
    BY <1>2, <2>1 DEF Dispatch, Idle, history
  <2>3. GoodRun(r)'
    BY <2>2 DEF GoodRun, Running, Gates
  <2> QED
    BY <2>2, <2>3, OwnStep DEF service
<1>3. ASSUME NEW r \in Runs, PushMain(r)
      PROVE  GateInv'
  <2>1. run[r].step = "committed" /\ run' = [run EXCEPT ![r].step = "pushed"]
        /\ UNCHANGED <<tag, release, maven, tested, unitTested>>
    BY <1>3 DEF PushMain, Set, history
  <2>2. \A q \in Runs : GoodRun(q)'
    BY <2>1, NextStep DEF Running
  <2> QED
    BY <2>1, <2>2, TagsStayGood, AarsStayGood, MavenStaysGood DEF GateInv
<1>4. ASSUME NEW r \in Runs, Fail(r)
      PROVE  GateInv'
  <2>1. run[r].step \in Running /\ run' = [run EXCEPT ![r].step = "failed"]
        /\ UNCHANGED <<service, tested, unitTested>>
    BY <1>4 DEF Fail, Set, history
  <2>2. \A q \in Runs : GoodRun(q)'
    BY <2>1, NextStep
  <2> QED
    BY <2>1, <2>2, TagsStayGood, AarsStayGood, MavenStaysGood DEF GateInv, service
<1>5. CASE UNCHANGED vars
  BY <1>5 DEF vars, service, history, GateInv, GoodRun, TagsGood, AarsGood, MavenGood, Gated
<1> QED
  BY <1>0, <1>1, <1>2, <1>3, <1>4, <1>5, GateJob, GatePrepare, GateTag, GateRelease,
     GateUpload, GateMaven, GateAgain DEF Next

(* A tag pins its own version, by the checksum of the build whose Swift    *)
(* source stands beside the pin, for any runs, versions and attempts.      *)
THEOREM PinsAreWhole == Spec => []PinIsWhole
<1> QED
  BY InvInit, InvStep, GateInit, GateStep, GateInvImplies, PTL DEF Spec

(* No binary is published that the gates did not pass, for any runs,       *)
(* versions and attempts.                                                  *)
THEOREM BinariesAreGated == Spec => []BinariesWereGated
<1> QED
  BY InvInit, InvStep, GateInit, GateStep, GateInvImplies, PTL DEF Spec

-----------------------------------------------------------------------------
(* The zip of a run nobody interfered with is what its tag pins.           *)

(* Before a run uploads, it has sent nothing; from its tag to its uploads  *)
(* the tag pins its zip, and once it has sent the zip the release has it.  *)
AloneRun(r) ==
  LET x == run[r] IN
  /\ x.step \in {"idle", "needs", "committed", "pushed", "tagged"} => x.sent = {}
  /\ alone[r] /\ x.step \in {"tagged", "released"} => Last(tag[x.version]).checksum = x.zip
  /\ alone[r] /\ "zip" \in x.sent => Shipped(x.version) = Last(tag[x.version]).checksum

AloneInv == \A r \in Runs : AloneRun(r)

LEMMA AloneInit == Init => AloneInv
BY DEF Init, Idle, AloneInv, AloneRun

(* A step of one run that leaves the tags and the releases alone.          *)
LEMMA AloneKept ==
  ASSUME AloneInv, NEW r \in Runs, \A q \in Runs \ {r} : run'[q] = run[q],
         UNCHANGED <<tag, release, alone>>,
         \/ /\ run'[r].sent = run[r].sent /\ run'[r].version = run[r].version
            /\ run'[r].zip = run[r].zip /\ run'[r].step \in {"failed", "done"}
         \/ run'[r].sent = {} /\ run'[r].step \notin {"tagged", "released"}
  PROVE  AloneInv'
BY DEF AloneInv, AloneRun, Shipped

(* What a step of run r makes of the other runs of its version.            *)
LEMMA OthersAlone ==
  ASSUME Inv, AloneInv, NEW r \in Runs, NEW q \in Runs \ {r}, run'[q] = run[q],
         \A v \in Versions \ {run[r].version} :
           tag'[v] = tag[v] /\ release'[v] = release[v],
         alone'[q] => alone[q] /\ q \notin Others(r)
  PROVE  AloneRun(q)'
<1>1. CASE run[q].step = "idle"
  <2>1. run[q].sent = {}
    BY <1>1 DEF AloneInv, AloneRun
  <2> QED
    BY <1>1, <2>1 DEF AloneRun
<1>2. CASE run[q].step # "idle"
  <2>1. run[q].version \in Versions
    BY <1>2, RunFacts
  <2>2. alone'[q] => run[q].version # run[r].version
    BY DEF Others
  <2>3. alone'[q] => /\ tag'[run[q].version] = tag[run[q].version]
                     /\ release'[run[q].version] = release[run[q].version]
    BY <2>1, <2>2
  <2>4. AloneRun(q)
    BY DEF AloneInv
  <2> QED
    BY <2>3, <2>4 DEF AloneRun, Shipped
<1> QED
  BY <1>1, <1>2

LEMMA AloneTag ==
  ASSUME Inv, GateInv, AloneInv, NEW r \in Runs, PushTag(r)
  PROVE  AloneInv'
<1> DEFINE v == run[r].version
<1>1. run[r].step = "pushed" /\ v \in Versions /\ run \in [Runs -> Records]
      /\ run[r] \in Records
  BY RunFacts DEF PushTag
<1>2. /\ tag' = [tag EXCEPT ![v] = run[r].local] /\ release' = release
      /\ \A q \in Runs : alone'[q] = IF q = r THEN TRUE ELSE alone[q] /\ q \notin Others(r)
      /\ run' = [run EXCEPT ![r].step = "tagged"]
  BY DEF PushTag, MoveTag, Set
<1>3. /\ \A q \in Runs \ {r} : run'[q] = run[q]
      /\ run'[r].step = "tagged" /\ run'[r].sent = run[r].sent
      /\ run'[r].zip = run[r].zip /\ run'[r].version = v
  BY <1>1, <1>2 DEF Records
<1>4. tag'[v] = run[r].local /\ \A u \in Versions \ {v} : tag'[u] = tag[u]
  BY <1>1, <1>2 DEF Inv, TypeOK
<1>5. AloneRun(r)'
  <2>1. run[r].sent = {}
    BY <1>1 DEF AloneInv, AloneRun
  <2>2. Last(run[r].local).checksum = run[r].zip
    BY <1>1 DEF GateInv, GoodRun
  <2> QED
    BY <1>3, <1>4, <2>1, <2>2 DEF AloneRun
<1>6. ASSUME NEW q \in Runs \ {r}
      PROVE  AloneRun(q)'
  BY <1>2, <1>3, <1>4, OthersAlone
<1> QED
  BY <1>5, <1>6 DEF AloneInv

LEMMA AloneRelease ==
  ASSUME Inv, AloneInv, NEW r \in Runs, CreateRelease(r)
  PROVE  AloneInv'
<1>1. run[r].step = "tagged" /\ run \in [Runs -> Records] /\ run[r] \in Records
      /\ run[r].version \in Versions
  BY RunFacts DEF CreateRelease
<1>2. /\ release' = [release EXCEPT ![run[r].version] =
                      IF @ = None THEN [zip |-> None, aar |-> None] ELSE @]
      /\ run' = [run EXCEPT ![r].step = "released"]
      /\ UNCHANGED <<tag, alone>>
  BY DEF CreateRelease, Set, history
<1>3. /\ \A q \in Runs \ {r} : run'[q] = run[q]
      /\ run'[r].step = "released" /\ run'[r].sent = run[r].sent
      /\ run'[r].zip = run[r].zip /\ run'[r].version = run[r].version
  BY <1>1, <1>2 DEF Records
<1>4. ASSUME NEW u \in Versions
      PROVE  Shipped(u)' = Shipped(u)
  <2>1. CASE release'[u] = release[u]
    BY <2>1 DEF Shipped
  <2>2. CASE release'[u] # release[u]
    <3> DEFINE blank == [zip |-> None, aar |-> None]
    <3>1. release[u] = None /\ release'[u] = blank
      BY <1>1, <1>2, <2>2 DEF Inv, TypeOK
    <3> QED
      BY <3>1 DEF Shipped
  <2> QED
    BY <2>1, <2>2
<1>5. run[r].sent = {}
  BY <1>1 DEF AloneInv, AloneRun
<1>6. AloneRun(r)'
  BY <1>1, <1>2, <1>3, <1>5 DEF AloneInv, AloneRun
<1>7. ASSUME NEW q \in Runs \ {r}
      PROVE  AloneRun(q)'
  <2>1. AloneRun(q) /\ run'[q] = run[q] /\ (run[q].step # "idle" => run[q].version \in Versions)
    BY <1>3, RunFacts DEF AloneInv
  <2> QED
    BY <1>2, <1>4, <2>1 DEF AloneRun
<1> QED
  BY <1>6, <1>7 DEF AloneInv

LEMMA AloneUpload ==
  ASSUME Inv, AloneInv, NEW r \in Runs, NEW k \in {"zip", "aar"},
         Upload(r, k) \/ UploadFails(r, k)
  PROVE  AloneInv'
<1> DEFINE v == run[r].version
<1>1. PICK b \in Builds \cup {None} :
        PutAsset(r, k, b) /\ (Upload(r, k) => b = Asset(r, k))
  BY RunFacts DEF Upload, UploadFails, Asset, Records
<1>2. /\ run[r].step = "released" /\ k \notin run[r].sent
      /\ v \in Versions /\ release[v] # None /\ tag' = tag
      /\ \A q \in Runs : alone'[q] <=> alone[q] /\ q \notin Others(r)
  BY <1>1, RunFacts DEF PutAsset, Inv, RunInv
<1>3. run \in [Runs -> Records] /\ run[r] \in Records
  BY RunFacts
<1>4. /\ \A q \in Runs \ {r} : run'[q] = run[q]
      /\ run'[r].zip = run[r].zip /\ run'[r].version = v
      /\ run'[r].step \in {"released", "uploaded", "failed"}
      /\ run'[r].sent = IF Upload(r, k) THEN run[r].sent \cup {k} ELSE run[r].sent
  <2>1. CASE Upload(r, k)
    BY <1>2, <1>3, <2>1 DEF Upload, Records
  <2>2. CASE ~Upload(r, k)
    BY <1>2, <1>3, <2>2 DEF UploadFails, Set, Records
  <2> QED
    BY <2>1, <2>2
<1>5. /\ \A u \in Versions \ {v} : release'[u] = release[u]
      /\ release[v] \in Assets
      /\ release'[v].zip = IF k = "zip" THEN b ELSE release[v].zip
  BY <1>1, AssetPut
<1>6. release'[v] # None
  <2>1. release' = [release EXCEPT ![v] = [release[v] EXCEPT ![k] = b]]
    BY <1>1, <1>2 DEF PutAsset, Inv, TypeOK
  <2>2. [release[v] EXCEPT ![k] = b] \in Assets
    BY <1>5 DEF Assets
  <2> QED
    BY <1>2, <2>1, <2>2, ReleaseAssumption DEF Inv, TypeOK
<1>7. AloneRun(r)'
  <2>1. AloneRun(r)
    BY DEF AloneInv
  <2>2. Shipped(v)' = (IF k = "zip" THEN b ELSE Shipped(v))
    BY <1>2, <1>4, <1>5, <1>6 DEF Shipped
  <2>3. CASE k = "zip"
    <3>1. Upload(r, k) => b = run[r].zip
      BY <1>1, <2>3 DEF Asset
    <3> QED
      BY <1>2, <1>4, <2>1, <2>2, <2>3, <3>1 DEF AloneRun
  <2>4. CASE k # "zip"
    BY <1>2, <1>4, <2>1, <2>2, <2>4 DEF AloneRun
  <2> QED
    BY <2>3, <2>4
<1>8. ASSUME NEW q \in Runs \ {r}
      PROVE  AloneRun(q)'
  BY <1>2, <1>4, <1>5, OthersAlone
<1> QED
  BY <1>7, <1>8 DEF AloneInv

LEMMA AloneStep ==
  ASSUME Inv, GateInv, AloneInv, [Next]_vars
  PROVE  AloneInv'
<1>0. run \in [Runs -> Records] /\ \A r \in Runs : run[r] \in Records
  BY RunFacts DEF Inv, TypeOK, Records
<1>1. CASE Develop \/ UNCHANGED vars
  BY <1>1 DEF Develop, vars, service, history, AloneInv, AloneRun, Shipped
<1>2. ASSUME NEW r \in Runs, NEW v \in Versions, Dispatch(r, v)
      PROVE  AloneInv'
  <2>1. /\ \A q \in Runs \ {r} : run'[q] = run[q]
        /\ run'[r].step = "needs" /\ run'[r].sent = {}
        /\ UNCHANGED <<tag, release, alone>>
    BY <1>0, <1>2 DEF Dispatch, Idle, service, history
  <2> QED
    BY <2>1, AloneKept
<1>3. ASSUME NEW r \in Runs, NEW j \in Gates, JobPasses(r, j) \/ JobFails(r, j)
      PROVE  AloneInv'
  <2>1. run[r].step = "needs"
    BY <1>3 DEF JobPasses, JobFails, MayStart
  <2>2. run[r].sent = {}
    BY <2>1 DEF AloneInv, AloneRun
  <2>3. /\ \A q \in Runs \ {r} : run'[q] = run[q]
        /\ run'[r].step = "needs" /\ run'[r].sent = run[r].sent
        /\ UNCHANGED <<tag, release, alone>>
    <3>1. CASE JobPasses(r, j)
      BY <1>0, <2>1, <3>1 DEF JobPasses, Records, service
    <3>2. CASE JobFails(r, j)
      BY <1>0, <2>1, <3>2 DEF JobFails, Records, service, history
    <3> QED
      BY <1>3, <3>1, <3>2
  <2> QED
    BY <2>2, <2>3, AloneKept
<1>4. ASSUME NEW r \in Runs, Prepare(r)
      PROVE  AloneInv'
  <2>1. /\ \A q \in Runs \ {r} : run'[q] = run[q]
        /\ run'[r].step = "committed" /\ run'[r].sent = {}
        /\ UNCHANGED <<tag, release, alone>>
    BY <1>0, <1>4 DEF Prepare, Records, service, history
  <2> QED
    BY <2>1, AloneKept
<1>5. ASSUME NEW r \in Runs, NEW jobs, Again(r, jobs)
      PROVE  AloneInv'
  <2>1. /\ \A q \in Runs \ {r} : run'[q] = run[q]
        /\ run'[r].step = "needs" /\ run'[r].sent = {}
        /\ UNCHANGED <<tag, release, alone>>
    BY <1>0, <1>5 DEF Again, Records, service, history
  <2> QED
    BY <2>1, AloneKept
<1>6. ASSUME NEW r \in Runs, PushMain(r)
      PROVE  AloneInv'
  <2>1. /\ \A q \in Runs \ {r} : run'[q] = run[q]
        /\ run'[r].step = "pushed" /\ run[r].step = "committed"
        /\ run'[r].sent = run[r].sent
        /\ UNCHANGED <<tag, release, alone>>
    BY <1>0, <1>6 DEF PushMain, Set, Records, history
  <2>2. run[r].sent = {}
    BY <2>1 DEF AloneInv, AloneRun
  <2> QED
    BY <2>1, <2>2, AloneKept
<1>7. ASSUME NEW r \in Runs, Fail(r) \/ PublishMaven(r)
      PROVE  AloneInv'
  <2>1. /\ \A q \in Runs \ {r} : run'[q] = run[q]
        /\ run'[r].step \in {"failed", "done"}
        /\ run'[r].sent = run[r].sent /\ run'[r].version = run[r].version
        /\ run'[r].zip = run[r].zip
        /\ UNCHANGED <<tag, release, alone>>
    <3>1. CASE Fail(r)
      BY <1>0, <3>1 DEF Fail, Set, Records, service, history
    <3>2. CASE PublishMaven(r)
      BY <1>0, <3>2 DEF PublishMaven, PutPackage, Set, Records, history
    <3> QED
      BY <1>7, <3>1, <3>2
  <2> QED
    BY <2>1, AloneKept
<1> QED
  BY <1>1, <1>2, <1>3, <1>4, <1>5, <1>6, <1>7, AloneTag, AloneRelease, AloneUpload
  DEF Next, RerunFailed, RerunAll

(* A publish alone with its version leaves a tag that resolves, whatever   *)
(* fails and however often it is run again.                                *)
THEOREM AloneDoesResolve == Spec => []AloneResolves
<1>1. AloneInv => AloneResolves
  BY DEF AloneInv, AloneRun, AloneResolves
<1> QED
  BY InvInit, InvStep, GateInit, GateStep, AloneInit, AloneStep, <1>1, PTL DEF Spec

-----------------------------------------------------------------------------
(* The package, the assets and the tag of a run nobody interfered with.    *)

(* From its tag on, the tag is at the commit of the run; the release has   *)
(* the AAR once it was sent, and the registry the package at the end.      *)
TogetherRun(r) ==
  LET x == run[r] IN
  /\ x.step \in {"uploaded", "done"} => x.sent = {"zip", "aar"}
  /\ alone[r] /\ x.step \in {"tagged", "released", "uploaded"} =>
       tag[x.version] = x.local
  /\ alone[r] /\ "aar" \in x.sent =>
       release[x.version] # None /\ release[x.version].aar = x.libs
  /\ alone[r] /\ x.step = "done" =>
       /\ maven[x.version] = <<x.libs, Last(tag[x.version]).src>>
       /\ maven[x.version] # None

TogetherInv == \A r \in Runs : TogetherRun(r)

LEMMA TogetherImplies == TogetherInv => PublishedTogether
BY DEF TogetherInv, TogetherRun, PublishedTogether

LEMMA TogetherInit == Init => TogetherInv
BY DEF Init, Idle, TogetherInv, TogetherRun

(* A step of one run that leaves the service alone.                        *)
LEMMA TogetherKept ==
  ASSUME TogetherInv, NEW r \in Runs, \A q \in Runs \ {r} : run'[q] = run[q],
         UNCHANGED <<tag, release, maven, alone>>,
         \/ /\ run'[r].sent = run[r].sent /\ run'[r].version = run[r].version
            /\ run'[r].libs = run[r].libs /\ run'[r].step = "failed"
         \/ /\ run'[r].sent = {}
            /\ run'[r].step \notin {"tagged", "released", "uploaded", "done"}
  PROVE  TogetherInv'
<1>1. TogetherRun(r)'
  BY DEF TogetherInv, TogetherRun
<1>2. ASSUME NEW q \in Runs \ {r} PROVE TogetherRun(q)'
  <2>1. TogetherRun(q) /\ run'[q] = run[q]
    BY DEF TogetherInv
  <2> QED
    BY <2>1 DEF TogetherRun
<1> QED
  BY <1>1, <1>2 DEF TogetherInv

(* What a step of run r makes of the other runs.                           *)
LEMMA OthersTogether ==
  ASSUME Inv, TogetherInv, NEW r \in Runs, NEW q \in Runs \ {r}, run'[q] = run[q],
         \A v \in Versions \ {run[r].version} :
           tag'[v] = tag[v] /\ release'[v] = release[v],
         maven' = maven, AloneInv,
         alone'[q] => alone[q] /\ q \notin Others(r)
  PROVE  TogetherRun(q)'
<1>1. CASE run[q].step = "idle"
  <2>1. run[q].sent = {}
    BY <1>1 DEF AloneInv, AloneRun
  <2> QED
    BY <1>1, <2>1 DEF TogetherRun
<1>2. CASE run[q].step # "idle"
  <2>1. run[q].version \in Versions
    BY <1>2, RunFacts
  <2>2. alone'[q] => run[q].version # run[r].version
    BY DEF Others
  <2>3. alone'[q] => /\ tag'[run[q].version] = tag[run[q].version]
                     /\ release'[run[q].version] = release[run[q].version]
    BY <2>1, <2>2
  <2>4. TogetherRun(q)
    BY DEF TogetherInv
  <2> QED
    BY <2>3, <2>4 DEF TogetherRun
<1> QED
  BY <1>1, <1>2

LEMMA TogetherTag ==
  ASSUME Inv, AloneInv, TogetherInv, NEW r \in Runs, PushTag(r)
  PROVE  TogetherInv'
<1> DEFINE v == run[r].version
<1>1. run[r].step = "pushed" /\ v \in Versions /\ run \in [Runs -> Records]
      /\ run[r] \in Records
  BY RunFacts DEF PushTag
<1>2. /\ tag' = [tag EXCEPT ![v] = run[r].local] /\ UNCHANGED <<release, maven>>
      /\ \A q \in Runs : alone'[q] = IF q = r THEN TRUE ELSE alone[q] /\ q \notin Others(r)
      /\ run' = [run EXCEPT ![r].step = "tagged"]
  BY DEF PushTag, MoveTag, Set
<1>3. /\ \A q \in Runs \ {r} : run'[q] = run[q]
      /\ run'[r].step = "tagged" /\ run'[r].sent = run[r].sent
      /\ run'[r].local = run[r].local /\ run'[r].version = v
  BY <1>1, <1>2 DEF Records
<1>4. tag'[v] = run[r].local /\ \A u \in Versions \ {v} : tag'[u] = tag[u]
  BY <1>1, <1>2 DEF Inv, TypeOK
<1>5. TogetherRun(r)'
  <2>1. run[r].sent = {}
    BY <1>1 DEF AloneInv, AloneRun
  <2> QED
    BY <1>3, <1>4, <2>1 DEF TogetherRun
<1>6. ASSUME NEW q \in Runs \ {r}
      PROVE  TogetherRun(q)'
  BY <1>2, <1>3, <1>4, OthersTogether
<1> QED
  BY <1>5, <1>6 DEF TogetherInv

LEMMA TogetherRelease ==
  ASSUME Inv, AloneInv, TogetherInv, NEW r \in Runs, CreateRelease(r)
  PROVE  TogetherInv'
<1>1. run[r].step = "tagged" /\ run \in [Runs -> Records] /\ run[r] \in Records
      /\ run[r].version \in Versions
  BY RunFacts DEF CreateRelease
<1>2. /\ release' = [release EXCEPT ![run[r].version] =
                      IF @ = None THEN [zip |-> None, aar |-> None] ELSE @]
      /\ run' = [run EXCEPT ![r].step = "released"]
      /\ UNCHANGED <<tag, maven, alone>>
  BY DEF CreateRelease, Set, history
<1>3. /\ \A q \in Runs \ {r} : run'[q] = run[q]
      /\ run'[r].step = "released" /\ run'[r].sent = run[r].sent
      /\ run'[r].local = run[r].local /\ run'[r].version = run[r].version
  BY <1>1, <1>2 DEF Records
<1>4. \A u \in Versions : release[u] # None => release'[u] = release[u]
  BY <1>1, <1>2 DEF Inv, TypeOK
<1>5. run[r].sent = {}
  BY <1>1 DEF AloneInv, AloneRun
<1>6. TogetherRun(r)'
  BY <1>1, <1>2, <1>3, <1>5 DEF TogetherInv, TogetherRun
<1>7. ASSUME NEW q \in Runs \ {r}
      PROVE  TogetherRun(q)'
  <2>1. TogetherRun(q) /\ run'[q] = run[q]
    BY <1>3 DEF TogetherInv
  <2>2. "aar" \in run[q].sent => run[q].version \in Versions
    BY RunFacts DEF AloneInv, AloneRun
  <2> QED
    BY <1>2, <1>4, <2>1, <2>2 DEF TogetherRun
<1> QED
  BY <1>6, <1>7 DEF TogetherInv

LEMMA TogetherUpload ==
  ASSUME Inv, AloneInv, TogetherInv, NEW r \in Runs, NEW k \in {"zip", "aar"},
         Upload(r, k) \/ UploadFails(r, k)
  PROVE  TogetherInv'
<1> DEFINE v == run[r].version
<1>1. PICK b \in Builds \cup {None} :
        PutAsset(r, k, b) /\ (Upload(r, k) => b = Asset(r, k))
  BY RunFacts DEF Upload, UploadFails, Asset, Records
<1>2. /\ run[r].step = "released" /\ k \notin run[r].sent
      /\ v \in Versions /\ release[v] # None /\ UNCHANGED <<tag, maven>>
      /\ \A q \in Runs : alone'[q] <=> alone[q] /\ q \notin Others(r)
  BY <1>1, RunFacts DEF PutAsset, Inv, RunInv
<1>3. run \in [Runs -> Records] /\ run[r] \in Records
  BY RunFacts
<1>4. /\ \A q \in Runs \ {r} : run'[q] = run[q]
      /\ run'[r].libs = run[r].libs /\ run'[r].version = v
      /\ run'[r].local = run[r].local
      /\ run'[r].step \in {"released", "uploaded", "failed"}
      /\ run'[r].step = "uploaded" => run'[r].sent = {"zip", "aar"}
      /\ run'[r].sent = IF Upload(r, k) THEN run[r].sent \cup {k} ELSE run[r].sent
  <2>1. CASE Upload(r, k)
    BY <1>2, <1>3, <2>1 DEF Upload, Records
  <2>2. CASE ~Upload(r, k)
    BY <1>2, <1>3, <2>2 DEF UploadFails, Set, Records
  <2> QED
    BY <2>1, <2>2
<1>5. /\ \A u \in Versions \ {v} : release'[u] = release[u]
      /\ release[v] \in Assets
      /\ release'[v].aar = IF k = "aar" THEN b ELSE release[v].aar
  BY <1>1, AssetPut
<1>6. release'[v] # None
  <2>1. release' = [release EXCEPT ![v] = [release[v] EXCEPT ![k] = b]]
    BY <1>1, <1>2 DEF PutAsset, Inv, TypeOK
  <2>2. [release[v] EXCEPT ![k] = b] \in Assets
    BY <1>5 DEF Assets
  <2> QED
    BY <1>2, <2>1, <2>2, ReleaseAssumption DEF Inv, TypeOK
<1>7. TogetherRun(r)'
  <2>1. TogetherRun(r)
    BY DEF TogetherInv
  <2>2. alone'[r] => alone[r]
    BY <1>2
  <2>3. CASE k = "aar"
    <3>1. Upload(r, k) => b = run[r].libs
      BY <1>1, <2>3 DEF Asset
    <3>2. ~Upload(r, k) => "aar" \notin run'[r].sent
      BY <1>2, <1>4, <2>3
    <3>3. "aar" \in run'[r].sent => release'[v].aar = run'[r].libs
      BY <1>4, <1>5, <2>3, <3>1, <3>2
    <3> QED
      BY <1>2, <1>4, <1>6, <2>1, <2>2, <3>3 DEF TogetherRun
  <2>4. CASE k # "aar"
    <3>1. "aar" \in run'[r].sent => "aar" \in run[r].sent
      BY <1>4, <2>4
    <3> QED
      BY <1>2, <1>4, <1>5, <1>6, <2>1, <2>2, <2>4, <3>1 DEF TogetherRun
  <2> QED
    BY <2>3, <2>4
<1>8. ASSUME NEW q \in Runs \ {r}
      PROVE  TogetherRun(q)'
  BY <1>2, <1>4, <1>5, OthersTogether
<1> QED
  BY <1>7, <1>8 DEF TogetherInv

(* The registry takes a version once, so what an earlier run has put there *)
(* stays.                                                                  *)
LEMMA TogetherMaven ==
  ASSUME Inv, TogetherInv, NEW r \in Runs, PublishMaven(r)
  PROVE  TogetherInv'
<1> DEFINE v == run[r].version
           package == <<run[r].libs, Last(run[r].local).src>>
<1>1. run[r].step = "uploaded" /\ run \in [Runs -> Records] /\ run[r] \in Records
      /\ v \in Versions /\ run[r].local # <<>> /\ maven[v] = None
  BY RunFacts DEF PublishMaven, PutPackage, Running
<1>2. /\ maven' = [maven EXCEPT ![v] = package]
      /\ run' = [run EXCEPT ![r].step = "done"]
      /\ UNCHANGED <<tag, release, alone>>
  BY DEF PublishMaven, PutPackage, Set, history
<1>3. /\ \A q \in Runs \ {r} : run'[q] = run[q]
      /\ run'[r].step = "done" /\ run'[r].sent = run[r].sent
      /\ run'[r].libs = run[r].libs /\ run'[r].version = v
  BY <1>1, <1>2 DEF Records
<1>4. maven'[v] = package /\ \A u \in Versions \ {v} : maven'[u] = maven[u]
  BY <1>1, <1>2 DEF Inv, TypeOK
<1>5. package # None
  <2>1. Last(run[r].local).src \in Nat
    BY <1>1, LastTyped DEF Contents, Records
  <2>2. package \in Packages
    BY <1>1, <2>1 DEF Packages, Records
  <2> QED
    BY <2>2, ReleaseAssumption
<1>6. TogetherRun(r)'
  <2>1. TogetherRun(r)
    BY DEF TogetherInv
  <2>2. alone[r] => package = <<run[r].libs, Last(tag[v]).src>>
    BY <1>1, <2>1 DEF TogetherRun
  <2> HIDE DEF package
  <2> QED
    BY <1>1, <1>2, <1>3, <1>4, <1>5, <2>1, <2>2 DEF TogetherRun
<1>7. ASSUME NEW q \in Runs \ {r}
      PROVE  TogetherRun(q)'
  <2>1. TogetherRun(q) /\ run'[q] = run[q]
    BY <1>3 DEF TogetherInv
  <2>2. alone[q] /\ run[q].step = "done" => run[q].version \in Versions \ {v}
    BY <1>1, <2>1, RunFacts DEF TogetherRun
  <2> QED
    BY <1>2, <1>4, <2>1, <2>2 DEF TogetherRun
<1> QED
  BY <1>6, <1>7 DEF TogetherInv

LEMMA TogetherStep ==
  ASSUME Inv, AloneInv, TogetherInv, [Next]_vars
  PROVE  TogetherInv'
<1>0. run \in [Runs -> Records] /\ \A r \in Runs : run[r] \in Records
  BY RunFacts DEF Inv, TypeOK, Records
<1>1. CASE Develop \/ UNCHANGED vars
  BY <1>1 DEF Develop, vars, service, history, TogetherInv, TogetherRun
<1>2. ASSUME NEW r \in Runs, NEW v \in Versions, Dispatch(r, v)
      PROVE  TogetherInv'
  <2>1. /\ \A q \in Runs \ {r} : run'[q] = run[q]
        /\ run'[r].step = "needs" /\ run'[r].sent = {}
        /\ UNCHANGED <<tag, release, maven, alone>>
    BY <1>0, <1>2 DEF Dispatch, Idle, service, history
  <2> QED
    BY <2>1, TogetherKept
<1>3. ASSUME NEW r \in Runs, NEW j \in Gates, JobPasses(r, j) \/ JobFails(r, j)
      PROVE  TogetherInv'
  <2>1. run[r].step = "needs"
    BY <1>3 DEF JobPasses, JobFails, MayStart
  <2>2. run[r].sent = {}
    BY <2>1 DEF AloneInv, AloneRun
  <2>3. /\ \A q \in Runs \ {r} : run'[q] = run[q]
        /\ run'[r].step = "needs" /\ run'[r].sent = run[r].sent
        /\ UNCHANGED <<tag, release, maven, alone>>
    <3>1. CASE JobPasses(r, j)
      BY <1>0, <2>1, <3>1 DEF JobPasses, Records, service
    <3>2. CASE JobFails(r, j)
      BY <1>0, <2>1, <3>2 DEF JobFails, Records, service, history
    <3> QED
      BY <1>3, <3>1, <3>2
  <2> QED
    BY <2>2, <2>3, TogetherKept
<1>4. ASSUME NEW r \in Runs, Prepare(r)
      PROVE  TogetherInv'
  <2>1. /\ \A q \in Runs \ {r} : run'[q] = run[q]
        /\ run'[r].step = "committed" /\ run'[r].sent = {}
        /\ UNCHANGED <<tag, release, maven, alone>>
    BY <1>0, <1>4 DEF Prepare, Records, service, history
  <2> QED
    BY <2>1, TogetherKept
<1>5. ASSUME NEW r \in Runs, NEW jobs, Again(r, jobs)
      PROVE  TogetherInv'
  <2>1. /\ \A q \in Runs \ {r} : run'[q] = run[q]
        /\ run'[r].step = "needs" /\ run'[r].sent = {}
        /\ UNCHANGED <<tag, release, maven, alone>>
    BY <1>0, <1>5 DEF Again, Records, service, history
  <2> QED
    BY <2>1, TogetherKept
<1>6. ASSUME NEW r \in Runs, PushMain(r)
      PROVE  TogetherInv'
  <2>1. /\ \A q \in Runs \ {r} : run'[q] = run[q]
        /\ run'[r].step = "pushed" /\ run[r].step = "committed"
        /\ run'[r].sent = run[r].sent
        /\ UNCHANGED <<tag, release, maven, alone>>
    BY <1>0, <1>6 DEF PushMain, Set, Records, history
  <2>2. run[r].sent = {}
    BY <2>1 DEF AloneInv, AloneRun
  <2> QED
    BY <2>1, <2>2, TogetherKept
<1>7. ASSUME NEW r \in Runs, Fail(r)
      PROVE  TogetherInv'
  <2>1. /\ \A q \in Runs \ {r} : run'[q] = run[q]
        /\ run'[r].step = "failed"
        /\ run'[r].sent = run[r].sent /\ run'[r].version = run[r].version
        /\ run'[r].libs = run[r].libs
        /\ UNCHANGED <<tag, release, maven, alone>>
    BY <1>0, <1>7 DEF Fail, Set, Records, service, history
  <2> QED
    BY <2>1, TogetherKept
<1> QED
  BY <1>1, <1>2, <1>3, <1>4, <1>5, <1>6, <1>7, TogetherTag, TogetherRelease,
     TogetherUpload, TogetherMaven
  DEF Next, RerunFailed, RerunAll

(* The package, the AAR and the tag of a publish alone with its version    *)
(* are of one build and one commit, for any runs, versions and pushes.     *)
THEOREM PublishesTogether == Spec => []PublishedTogether
<1> QED
  BY InvInit, InvStep, GateInit, GateStep, AloneInit, AloneStep, TogetherInit,
     TogetherStep, TogetherImplies, PTL DEF Spec
=============================================================================
