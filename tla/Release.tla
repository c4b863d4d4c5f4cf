------------------------------ MODULE Release -------------------------------
(***************************************************************************)
(* The release pipeline, .github/workflows/mobile.yml: runs dispatched to  *)
(* publish a version, their four gating jobs, and the publish job, whose   *)
(* steps change main, the tag, the GitHub release and the Maven package    *)
(* one after the other.  Any step may fail, a run may be run again, the    *)
(* failed jobs of it or all, and no concurrency group keeps two runs       *)
(* apart.  Runs that are not asked to publish change nothing and are left  *)
(* out, as is ios-engine, which gates nothing.                             *)
(*                                                                         *)
(* A commit is the sequence of the contents that lead up to it.            *)
(***************************************************************************)
EXTENDS Naturals, FiniteSets, SequencesExt

CONSTANTS
  Runs,          \* workflow runs dispatched with `publish`
  Versions,      \* versions they publish
  None,          \* an asset or a package that is not there
  MaxAttempts,   \* bound: attempts of all runs together
  MaxSrc         \* bound: changes of the sources on main

Builds == Runs \X Nat
Assets == [zip : Builds \cup {None}, aar : Builds \cup {None}]

(* The libraries in a registry package, and the sources of its module.     *)
Packages == (Builds \cup {None}) \X Nat

ASSUME ReleaseAssumption ==
  /\ MaxAttempts \in Nat \ {0} /\ MaxSrc \in Nat
  /\ None \notin Assets /\ None \notin Packages

VARIABLES
  main,          \* the branch, as the commit at its head
  tag,           \* the commit mobile-v<version> points to, <<>> if none
  release,       \* the assets of the GitHub release
  maven,         \* the package in the registry
  run,           \* per run: what it was asked for and how far it is
  tested,        \* history: native libraries that passed on the emulator
  unitTested,    \* history: runs whose Rust tests passed
  alone          \* history: no other run has touched the version since r's tag

service == <<main, tag, release, maven>>
history == <<tested, unitTested, alone>>
vars == <<service, run, history>>

Gates == {"test", "android", "ios", "device"}

-----------------------------------------------------------------------------
(* Runs and their jobs.                                                    *)

(* What Package.swift and Sources/ZkasMobile hold, and the sources.        *)
Content(s, v, b, w) == [src |-> s, version |-> v, checksum |-> b, swift |-> w]

Idle == [version |-> None, attempt |-> 0, job |-> [j \in Gates |-> "todo"],
         libs |-> None, zip |-> None, step |-> "idle", local |-> <<>>, sent |-> {}]

Init ==
  /\ main = <<Content(0, None, None, None)>>
  /\ tag = [v \in Versions |-> <<>>]
  /\ release = [v \in Versions |-> None]
  /\ maven = [v \in Versions |-> None]
  /\ run = [r \in Runs |-> Idle]
  /\ tested = {} /\ unitTested = {}
  /\ alone = [r \in Runs |-> FALSE]

(* Each build is one of its own: the zip alone holds its files' dates.     *)
Build(r) == <<r, run[r].attempt>>

Set(r, f, x) == run' = [run EXCEPT ![r][f] = x]

AttemptsLeft == MapThenSumSet(LAMBDA r : run[r].attempt, Runs) < MaxAttempts

(* workflow_dispatch, on any ref: the jobs build that, and publish takes   *)
(* main whatever it was.  Which sources a build is of is not followed.     *)
Dispatch(r, v) ==
  /\ run[r].step = "idle"
  /\ AttemptsLeft
  /\ run' = [run EXCEPT ![r] = [Idle EXCEPT !.version = v, !.attempt = 1,
                                            !.step = "needs"]]
  /\ UNCHANGED <<service, history>>

MayStart(r, j) ==
  /\ run[r].step = "needs" /\ run[r].job[j] = "todo"
  /\ j = "device" => run[r].job["android"] = "ok"

JobPasses(r, j) ==
  /\ MayStart(r, j)
  /\ run' = [run EXCEPT ![r].job[j] = "ok",
                        ![r].libs = IF j = "android" THEN Build(r) ELSE @,
                        ![r].zip = IF j = "ios" THEN Build(r) ELSE @]
  /\ tested' = IF j = "device" THEN tested \cup {run[r].libs} ELSE tested
  /\ unitTested' = IF j = "test" THEN unitTested \cup {r} ELSE unitTested
  /\ UNCHANGED <<service, alone>>

JobFails(r, j) ==
  /\ MayStart(r, j)
  /\ run' = [run EXCEPT ![r].job[j] = "failed"]
  /\ UNCHANGED <<service, history>>

-----------------------------------------------------------------------------
(* The publish job.                                                        *)

NeedsNoDevice(r) == \* mutant: the emulator is not waited for
  \A j \in Gates \ {"device"} : run[r].job[j] = "ok"

Needs(r) == \A j \in Gates : run[r].job[j] = "ok"

PinnedHalf(r) == \* mutant: Sources/ZkasMobile is not added to the commit
  Content(Last(main).src, run[r].version, run[r].zip, Last(main).swift)

(* The pin and the Swift source of this run's build, on today's main.      *)
Pinned(r) == Content(Last(main).src, run[r].version, run[r].zip, run[r].zip)

(* Checkout of main, the artifacts, the rewrite and the commit, or none if *)
(* nothing changed: all on the runner's own disk.                          *)
Prepare(r) ==
  /\ run[r].step = "needs" /\ Needs(r)
  /\ run' = [run EXCEPT ![r].step = "committed", ![r].sent = {},
       ![r].local = IF Pinned(r) = Last(main) THEN main ELSE Append(main, Pinned(r))]
  /\ UNCHANGED <<service, history>>

(* `git push origin main`, refused unless it is a fast-forward.            *)
PushMain(r) ==
  /\ run[r].step = "committed"
  /\ IsPrefix(main, run[r].local)
  /\ main' = run[r].local
  /\ Set(r, "step", "pushed")
  /\ UNCHANGED <<tag, release, maven, history>>

Others(r) == {q \in Runs \ {r} : run[q].version = run[r].version}

MoveTag(r, c) ==
  /\ tag' = [tag EXCEPT ![run[r].version] = c]
  /\ alone' = [q \in Runs |-> IF q = r THEN TRUE ELSE alone[q] /\ q \notin Others(r)]
  /\ Set(r, "step", "tagged")
  /\ UNCHANGED <<main, release, maven, tested, unitTested>>

PushTagBeforeMain(r) == \* mutant: the tag does not wait for main
  run[r].step \in {"committed", "pushed"} /\ MoveTag(r, run[r].local)

PushTagUnforced(r) == \* mutant: a tag that exists stays where it is
  /\ run[r].step = "pushed"
  /\ LET t == tag[run[r].version] IN MoveTag(r, IF t = <<>> THEN run[r].local ELSE t)

(* `git tag -f` and `git push -f`: the tag moves whatever it pointed to.   *)
PushTag(r) == run[r].step = "pushed" /\ MoveTag(r, run[r].local)

(* `gh release create || gh release edit`.                                 *)
CreateRelease(r) ==
  /\ run[r].step = "tagged"
  /\ release' = [release EXCEPT ![run[r].version] =
                   IF @ = None THEN [zip |-> None, aar |-> None] ELSE @]
  /\ Set(r, "step", "released")
  /\ UNCHANGED <<main, tag, maven, history>>

Asset(r, k) == IF k = "zip" THEN run[r].zip ELSE run[r].libs

PutAsset(r, k, b) ==
  /\ run[r].step = "released" /\ k \notin run[r].sent
  /\ release' = [release EXCEPT ![run[r].version][k] = b]
  /\ alone' = [q \in Runs |-> alone[q] /\ q \notin Others(r)]
  /\ UNCHANGED <<main, tag, maven, tested, unitTested>>

(* `gh release upload --clobber`: the two assets in either order.          *)
Upload(r, k) ==
  /\ PutAsset(r, k, Asset(r, k))
  /\ LET sent == run[r].sent \cup {k} IN
       run' = [run EXCEPT ![r].sent = sent,
                 ![r].step = IF sent = {"zip", "aar"} THEN "uploaded" ELSE @]

(* The old asset is deleted first, and the upload may fail after that.     *)
UploadFails(r, k) == PutAsset(r, k, None) /\ Set(r, "step", "failed")

PutPackage(r, s) ==
  /\ run[r].step = "uploaded"
  /\ maven[run[r].version] = None
  /\ maven' = [maven EXCEPT ![run[r].version] = <<run[r].libs, s>>]
  /\ Set(r, "step", "done")
  /\ UNCHANGED <<main, tag, release, history>>

PublishMavenOfMain(r) == \* mutant: main is checked out for the AAR once more
  PutPackage(r, Last(main).src)

(* Gradle builds the AAR again: this run's libraries in the module that    *)
(* publish checked out, which is main's as it was at the job's start.  The *)
(* registry takes a version once.                                          *)
PublishMaven(r) == PutPackage(r, Last(run[r].local).src)

Running == {"committed", "pushed", "tagged", "released", "uploaded"}

(* A step fails, and with it the job: a push refused, a version taken.     *)
Fail(r) ==
  /\ run[r].step \in Running
  /\ Set(r, "step", "failed")
  /\ UNCHANGED <<service, history>>

-----------------------------------------------------------------------------
(* Runs again, and the world around them.                                  *)

Failed(r, j) ==
  \/ run[r].job[j] = "failed"
  \/ j = "device" /\ run[r].job["android"] = "failed"

Concluded(r) ==
  \/ run[r].step \in {"done", "failed"}
  \/ /\ run[r].step = "needs"
     /\ ~Needs(r)
     /\ \A j \in Gates : run[r].job[j] # "todo" \/ Failed(r, j)

AgainForgets(r, jobs) == \* mutant: the results of the other jobs are lost
  /\ Concluded(r)
  /\ AttemptsLeft
  /\ run' = [run EXCEPT ![r].step = "needs", ![r].sent = {}, ![r].attempt = @ + 1,
               ![r].job = [j \in jobs |-> "todo"]]
  /\ UNCHANGED <<service, history>>

(* The jobs again, the others keeping their results and their artifacts.   *)
Again(r, jobs) ==
  /\ Concluded(r)
  /\ AttemptsLeft
  /\ run' = [run EXCEPT ![r].step = "needs", ![r].sent = {}, ![r].attempt = @ + 1,
               ![r].job = [j \in Gates |-> IF j \in jobs THEN "todo" ELSE @[j]]]
  /\ UNCHANGED <<service, history>>

RerunFailed(r) == run[r].step # "done" /\ Again(r, {j \in Gates : Failed(r, j)})
RerunAll(r) == Again(r, Gates)

(* Somebody pushes to main.                                                *)
Develop ==
  /\ Last(main).src < MaxSrc
  /\ main' = Append(main, [Last(main) EXCEPT !.src = @ + 1])
  /\ UNCHANGED <<tag, release, maven, run, history>>

Next ==
  \/ Develop
  \/ \E r \in Runs :
       \/ \E v \in Versions : Dispatch(r, v)
       \/ \E j \in Gates : JobPasses(r, j) \/ JobFails(r, j)
       \/ Prepare(r) \/ PushMain(r) \/ PushTag(r) \/ CreateRelease(r)
       \/ \E k \in {"zip", "aar"} : Upload(r, k) \/ UploadFails(r, k)
       \/ PublishMaven(r) \/ Fail(r) \/ RerunFailed(r) \/ RerunAll(r)

Spec == Init /\ [][Next]_vars

-----------------------------------------------------------------------------
(* Properties.                                                             *)

Contents == [src : Nat, version : Versions \cup {None},
             checksum : Builds \cup {None}, swift : Builds \cup {None}]
Commits == Seq(Contents)
Steps == {"idle", "needs", "done", "failed"} \cup Running

(* Every variable keeps its type: a branch always has a commit, and a run  *)
(* a result, or none yet, for each gate.                                   *)
TypeOK ==
  /\ main \in Commits /\ main # <<>>
  /\ tag \in [Versions -> Commits]
  /\ release \in [Versions -> {None} \cup Assets]
  /\ maven \in [Versions -> {None} \cup Packages]
  /\ run \in [Runs -> [version : Versions \cup {None}, attempt : Nat,
                       job : [Gates -> {"todo", "ok", "failed"}],
                       libs : Builds \cup {None}, zip : Builds \cup {None},
                       step : Steps, local : Commits, sent : SUBSET {"zip", "aar"}]]
  /\ tested \subseteq Builds \cup {None}
  /\ unitTested \subseteq Runs
  /\ alone \in [Runs -> BOOLEAN]

Shipped(v) == IF release[v] = None THEN None ELSE release[v].zip

(* A tag is never ahead of main nor beside it: whatever a consumer         *)
(* resolves is in the branch's history, though pushes are refused, tags    *)
(* are forced and runs overlap.                                            *)
TagOnMain == \A v \in Versions : IsPrefix(tag[v], main)

(* A tag pins its own version, by the checksum of the very build whose     *)
(* Swift source stands beside the pin: binary and binding never come from  *)
(* two builds, also when a rerun has "nothing to commit".                  *)
PinIsWhole ==
  \A v \in Versions :
    tag[v] # <<>> => /\ Last(tag[v]).version = v
                     /\ Last(tag[v]).checksum = Last(tag[v]).swift

(* No binary is published that the gates did not pass: the native          *)
(* libraries in every AAR, attached or in the registry, ran on the         *)
(* emulator, and the Rust tests passed in the run that built them or the   *)
(* framework a tag pins, also when jobs and whole runs are run again.  The *)
(* Gradle module around the libraries in the registry, and the sources at  *)
(* the tag, are main's, which no gate need have seen.                      *)
BinariesWereGated ==
  LET libs == {maven[v][1] : v \in {v \in Versions : maven[v] # None}}
                \cup {release[v].aar : v \in {v \in Versions : release[v] # None}}
      pins == {Last(tag[v]).checksum : v \in {v \in Versions : tag[v] # <<>>}}
  IN  /\ libs \ {None} \subseteq tested
      /\ \A b \in (libs \ {None}) \cup pins : b[1] \in unitTested

(* A publish that has uploaded its zip has left a tag that resolves: the   *)
(* release holds the artifact the tag pins, whatever failures and reruns   *)
(* came before, unless another run of the same version came in between.    *)
AloneResolves ==
  \A r \in Runs : alone[r] /\ "zip" \in run[r].sent =>
    LET v == run[r].version IN Shipped(v) = Last(tag[v]).checksum

(* What a publish has put in four places belongs together, though main is  *)
(* pushed to in between: the registry's package has the libraries of the   *)
(* release's AAR and the module of the tagged commit, unless another run   *)
(* of the same version came in between.                                    *)
PublishedTogether ==
  \A r \in Runs : alone[r] /\ run[r].step = "done" =>
    LET v == run[r].version IN maven[v] = <<release[v].aar, Last(tag[v]).src>>

(* Refuted.  Package.swift: "the tag a consumer resolves always carries    *)
(* the checksum of the artifact that tag published".  While no publish is  *)
(* under way, the tag may pin another build than the release holds.        *)
TagResolves ==
  (\A r \in Runs : run[r].step \notin Running) =>
    \A v \in Versions :
      Shipped(v) # None => Shipped(v) = Last(tag[v]).checksum
=============================================================================
