---------------------------- MODULE ReleasePipeline ----------------------------
(***************************************************************************)
(* .github/workflows/build.yml: one release per upstream ref, made by runs *)
(* that somebody starts.  A run reads the bodies of the releases to see    *)
(* what is finished, builds what is not, at most a batch of it, on every   *)
(* platform, and each ref's publisher replaces its release in place, one   *)
(* command after the other.  A leg, a command or the whole run may fail at *)
(* any time; upstream and this repository move meanwhile.                  *)
(*                                                                         *)
(* A commit is a number, and 0 is a ref that does not exist yet.  An asset *)
(* is known by its platform: the roles of a ref are built together.        *)
(***************************************************************************)
EXTENDS Integers, Sequences, FiniteSets, FiniteSetsExt, Functions

CONSTANTS
  Branches,     \* the moving refs, a sequence
  Tags,         \* upstream's tags, newest first
  Platforms,    \* PLATFORMS
  RsPlatforms,  \* RADIOSERVER_PLATFORMS
  Builds,       \* the legs that compile: a ref or "radioserver", and a platform
  Batch,        \* refs in one run; 32 in the file
  Runs,         \* runs that may be under way at once
  Wanted,       \* the inputs `refs' that are given; << >> is blank
  MaxMoves,     \* bound: commits of the branches and of this repository
  MaxFaults     \* bound: things that go wrong

Refs == Range(Branches) \cup Range(Tags)
RS == "radioserver"
Keys == Refs \cup {RS}
LegsOf(k) == {k} \X (IF k = RS THEN RsPlatforms ELSE Platforms)

ASSUME PipelineAssumption ==
  /\ Branches \in Seq(Refs) /\ Tags \in Seq(Refs) /\ Wanted \subseteq Seq(Refs)
  /\ RS \notin Refs /\ Platforms # {} /\ RsPlatforms # {}
  /\ Builds \subseteq UNION {LegsOf(k) : k \in Keys}
  /\ Batch \in Nat \ {0} /\ MaxMoves \in Nat /\ MaxFaults \in Nat

VARIABLES
  head,      \* upstream's commit of each ref
  variant,   \* this repository's
  release,   \* what is published: the commits the body names, and the assets
  run,       \* the runs under way
  faults,    \* how much has gone wrong
  broken,    \* history: releases whose last publisher did not get to its end
  unlisted   \* history: releases whose assets could not be listed when they last should

vars == <<head, variant, release, run, faults, broken, unlisted>>

\* Two commits: what the body names, and what an asset was built from.
From(sha, own) == [sha |-> sha, own |-> own]
None == From(0, 0)

NoRelease == [body |-> None, assets |-> [p \in Platforms \cup RsPlatforms |-> None]]
Exists(k) == release[k].body # None
Assets(k) == {p \in Platforms \cup RsPlatforms : release[k].assets[p] # None}

NoRun == [pc |-> "off", force |-> FALSE, own |-> 0, heads |-> [r \in Refs |-> 0],
          left |-> << >>, plan |-> << >>, matrix |-> {}, legs |-> {}, built |-> {},
          job |-> [k \in Keys |-> "none"], old |-> [k \in Keys |-> {}],
          done |-> [k \in Keys |-> {}]]

Init ==
  /\ head \in [Refs -> {0, 1}] /\ \A r \in Range(Branches) : head[r] = 1
  /\ variant = 1
  /\ release = [k \in Keys |-> NoRelease]
  /\ run = [n \in Runs |-> NoRun]
  /\ faults = 0 /\ broken = {} /\ unlisted = {}

-----------------------------------------------------------------------------
Moved == variant - 1 + MapThenSumSet(LAMBDA r : head[r] - 1, Range(Branches))

\* Tags appear and cannot move.
UpstreamMoves ==
  /\ \E r \in Refs : /\ (IF r \in Range(Tags) THEN head[r] = 0 ELSE Moved < MaxMoves)
                      /\ head' = [head EXCEPT ![r] = @ + 1]
  /\ UNCHANGED <<variant, release, run, faults, broken, unlisted>>

VariantMoves ==
  /\ Moved < MaxMoves /\ variant' = variant + 1
  /\ UNCHANGED <<head, release, run, faults, broken, unlisted>>

Wrong == faults < MaxFaults /\ faults' = faults + 1

-----------------------------------------------------------------------------
\* discover.

Order(wanted) == IF wanted = << >> THEN Branches \o Tags ELSE wanted

Dispatch(n, force) ==
  /\ run[n].pc = "off"
  /\ \E w \in Wanted :
       run' = [run EXCEPT ![n].pc = "clone", ![n].force = force, ![n].own = variant,
                          ![n].left = Order(w)]
  /\ UNCHANGED <<head, variant, release, faults, broken, unlisted>>

\* This repository's commit is the one the run was started at; upstream's are read here.
Clone(n) ==
  /\ run[n].pc = "clone"
  /\ run' = [run EXCEPT ![n].pc = "look", ![n].heads = head]
  /\ UNCHANGED <<head, variant, release, faults, broken, unlisted>>

\* Mutant of Finished: any release of the ref will do.
FinishedOnce(n, r) == Exists(r)
\* The body has both commits.
Finished(n, r) == release[r].body = From(run[n].heads[r], run[n].own)

\* A ref that does not exist is skipped.  A body that cannot be read is an empty one.
Look(n) ==
  /\ run[n].pc = "look" /\ run[n].left # << >>
  /\ LET r == Head(run[n].left)
     IN \E unread \in BOOLEAN :
          /\ IF unread THEN Wrong ELSE UNCHANGED faults
          /\ run' = [run EXCEPT
               ![n].left = Tail(@),
               ![n].plan = IF /\ run[n].heads[r] # 0
                              /\ run[n].force \/ unread \/ ~Finished(n, r)
                           THEN Append(@, r) ELSE @]
  /\ UNCHANGED <<head, variant, release, broken, unlisted>>

\* The first of what is left to do: a matrix is capped at 256 jobs.
Batched(plan) == SubSeq(plan, 1, IF Len(plan) > Batch THEN Batch ELSE Len(plan))

Planned(n) ==
  /\ run[n].pc = "look" /\ run[n].left = << >>
  /\ LET plan == Batched(run[n].plan)
         keys == Range(plan) \cup {RS}
     IN run' = [run EXCEPT
          ![n].pc = "work", ![n].plan = plan, ![n].matrix = {"build", RS},
          ![n].legs = UNION {LegsOf(k) : k \in keys},
          ![n].job = [k \in Keys |-> IF k \in keys THEN "wait" ELSE "none"]]
  /\ UNCHANGED <<head, variant, release, faults, broken, unlisted>>

\* One of the two matrices comes to its end: "build" or the radio server's.  A leg that
\* fails, or whose artifact is lost, does not keep the others from going on.
Built(n) ==
  /\ run[n].pc = "work"
  /\ \E m \in run[n].matrix, lost \in SUBSET run[n].legs :
       LET legs == {leg \in run[n].legs : (leg[1] = RS) = (m = RS)}
       IN /\ lost \subseteq legs /\ Cardinality(lost) <= 1
          /\ IF lost # {} THEN Wrong ELSE UNCHANGED faults
          /\ run' = [run EXCEPT ![n].matrix = @ \ {m}, ![n].legs = @ \ legs,
                                ![n].built = @ \cup ((legs \ lost) \cap Builds)]
  /\ UNCHANGED <<head, variant, release, broken, unlisted>>

-----------------------------------------------------------------------------
\* publish and publish-radioserver, one job for each release.

Binaries(n, k) == {p \in Platforms \cup RsPlatforms : << k, p >> \in run[n].built}

\* Mutant of Publishes: the radio server's does with what there is.
PublishesPartly(n, k) == Binaries(n, k) # {}
\* A ref is published with what was built of it, unless that is nothing; the radio
\* server only if every leg was.
Publishes(n, k) ==
  IF k = RS THEN Binaries(n, k) = RsPlatforms ELSE Binaries(n, k) # {}

Body(n, k) == From(IF k = RS THEN 0 ELSE run[n].heads[k], run[n].own)
Working(n, k, pc) == run[n].pc = "work" /\ run[n].job[k] = pc

\* Each waits for its own matrix.
Ready(n, k) == (IF k = RS THEN RS ELSE "build") \notin run[n].matrix

Begin(n, k) ==
  /\ Working(n, k, "wait") /\ Ready(n, k)
  /\ IF Publishes(n, k)
     THEN /\ release' = [release EXCEPT ![k].body = Body(n, k)]
          /\ run' = [run EXCEPT ![n].job[k] = IF Exists(k) THEN "list" ELSE "upload"]
     ELSE /\ run' = [run EXCEPT ![n].job[k] = "done"]
          /\ UNCHANGED release
  /\ UNCHANGED <<head, variant, faults, broken, unlisted>>

\* Mutant of Listed: the old assets stay beside the new ones.
ListedNone(k) == {}
\* The assets to delete: all there are.
Listed(k) == Assets(k)

List(n, k) ==
  /\ Working(n, k, "list")
  /\ run' = [run EXCEPT ![n].job[k] = "delete", ![n].old[k] = Listed(k)]
  /\ unlisted' = unlisted \ {k}
  /\ UNCHANGED <<head, variant, release, faults, broken>>

\* The listing is a command substitution in the words of a `for': `set -e' does not see it
\* fail.  Nothing is deleted, and the upload goes ahead.
ListFails(n, k) ==
  /\ Working(n, k, "list") /\ Wrong
  /\ run' = [run EXCEPT ![n].job[k] = "upload"]
  /\ unlisted' = unlisted \cup {k}
  /\ UNCHANGED <<head, variant, release, broken>>

Delete(n, k) ==
  /\ Working(n, k, "delete")
  /\ \/ /\ run[n].old[k] = {}
        /\ run' = [run EXCEPT ![n].job[k] = "upload"]
        /\ UNCHANGED release
     \/ \E p \in run[n].old[k] \cap Assets(k) :
          /\ release' = [release EXCEPT ![k].assets[p] = None]
          /\ run' = [run EXCEPT ![n].old[k] = @ \ {p}]
  /\ UNCHANGED <<head, variant, faults, broken, unlisted>>

\* An asset of the same name is overwritten.
Upload(n, k) ==
  /\ Working(n, k, "upload")
  /\ \/ /\ run[n].done[k] = Binaries(n, k)
        /\ run' = [run EXCEPT ![n].job[k] = "done"]
        /\ broken' = broken \ {k}
        /\ UNCHANGED release
     \/ \E p \in Binaries(n, k) \ run[n].done[k] :
          /\ release' = [release EXCEPT ![k].assets[p] = Body(n, k)]
          /\ run' = [run EXCEPT ![n].done[k] = @ \cup {p}]
          /\ UNCHANGED broken
  /\ UNCHANGED <<head, variant, faults, unlisted>>

Over(n) == /\ run[n].pc = "work" /\ run[n].matrix = {}
           /\ \A k \in Keys : run[n].job[k] \in {"none", "done"}
End(n) ==
  /\ Over(n) /\ run' = [run EXCEPT ![n] = NoRun]
  /\ UNCHANGED <<head, variant, release, faults, broken, unlisted>>

\* A command of a publisher fails, its runner is lost (at "list" nothing else ends it), or
\* the artifacts cannot be had, which leaves nothing to publish; an asset that another run
\* has deleted cannot be deleted again.
Midway == {"list", "delete", "upload"}

Fails(n, k) ==
  /\ run[n].pc = "work" /\ run[n].job[k] \in Midway \cup {"wait"} /\ Ready(n, k)
  /\ \/ Wrong
     \/ /\ run[n].job[k] = "delete" /\ run[n].old[k] \ Assets(k) # {}
        /\ UNCHANGED faults
  /\ run' = [run EXCEPT ![n].job[k] = "done"]
  /\ broken' = IF run[n].job[k] \in Midway THEN broken \cup {k} ELSE broken
  /\ UNCHANGED <<head, variant, release, unlisted>>

\* A run is cancelled, or its discovery fails.
Cancel(n) ==
  /\ run[n].pc # "off" /\ Wrong
  /\ run' = [run EXCEPT ![n] = NoRun]
  /\ broken' = broken \cup {k \in Keys : run[n].job[k] \in Midway}
  /\ UNCHANGED <<head, variant, release, unlisted>>

Step(n) ==
  \/ Clone(n) \/ Look(n) \/ Planned(n) \/ Built(n) \/ End(n)
  \/ \E k \in Keys : Begin(n, k) \/ List(n, k) \/ Delete(n, k) \/ Upload(n, k)

Next ==
  \/ UpstreamMoves \/ VariantMoves
  \/ \E n \in Runs : \/ \E force \in BOOLEAN : Dispatch(n, force)
                      \/ Step(n) \/ Cancel(n)
                      \/ \E k \in Keys : ListFails(n, k) \/ Fails(n, k)

Spec == Init /\ [][Next]_vars

\* A run that is started goes on, and somebody starts an ordinary one now and then, not
\* only forced ones.
Ordinary(n) == Dispatch(n, FALSE) /\ run'[n].left = Branches \o Tags
Running ==
  /\ Spec
  /\ \A n \in Runs : WF_vars(Step(n)) /\ SF_vars(Ordinary(n))

-----------------------------------------------------------------------------
Busy(k) == \E n \in Runs : run[n].job[k] \in Midway

\* Its last publisher has got to its end.
Complete(k) == Exists(k) /\ ~Busy(k) /\ k \notin broken
AsNamed(k, p) == release[k].assets[p] = release[k].body

\* "The commit is the point of the body": a release whose publisher has got to its end
\* holds something that was built from what its body names, whatever failed on the way;
\* and nothing else ("old assets are deleted rather than left alongside the new ones",
\* lines 308-309), unless the listing of the old assets was what failed.  For one run at a
\* time: nothing in the file keeps two from publishing a ref at once.
HoldsWhatItSays ==
  \A k \in Keys : Complete(k) =>
    /\ \E p \in Assets(k) : AsNamed(k, p)
    /\ k \notin unlisted => \A p \in Assets(k) : AsNamed(k, p)

\* "A release missing the macOS binary silently strands every Mac operator" (lines
\* 374-377): the radio server's is whole and all of one commit, whatever legs and listings
\* of whatever runs have failed.
RadioServerWhole ==
  Complete(RS) => Assets(RS) = RsPlatforms /\ \A p \in RsPlatforms : AsNamed(RS, p)

\* "Rebuilt only when the commit they point at has actually changed", and then it is: in
\* the end every ref that builds at all is released at its own commit, by this
\* repository's, however many refs there are to a batch, unless those that never build
\* fill it.
Settled(r) == head[r] # 0 => release[r].body = From(head[r], variant)
Buildable(r) == \E p \in Platforms : << r, p >> \in Builds
BacklogDrains == <>[](\A r \in Refs : Buildable(r) => Settled(r))

\* "A release already carrying this exact commit is finished" (line 111): one that the
\* next run would leave alone has something in it.  The body is written before the assets.
FinishedHasBinaries ==
  \A r \in Refs : Settled(r) /\ head[r] # 0 /\ ~Busy(r) => Assets(r) # {}
=============================================================================
