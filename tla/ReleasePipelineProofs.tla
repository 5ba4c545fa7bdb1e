------------------------- MODULE ReleasePipelineProofs -------------------------
(***************************************************************************)
(* What a publisher that is alone with its release makes of it, for every  *)
(* number of runs, refs and platforms, and whatever fails.                 *)
(***************************************************************************)
EXTENDS ReleasePipeline, TLAPS

Where == Platforms \cup RsPlatforms
Commits == [sha : Nat, own : Nat]
Jobs == {"none", "wait", "done"} \cup Midway
Pcs == {"off", "clone", "look", "work"}
Plans == Seq(Refs)
Matrices == SUBSET {"build", RS}
LegSets == SUBSET (Keys \X Where)
Platformed == SUBSET Where
Heads == [Refs -> Nat]
RunType ==
  [pc : Pcs, force : BOOLEAN, own : Nat, heads : Heads, left : Plans, plan : Plans,
   matrix : Matrices, legs : LegSets, built : LegSets, job : [Keys -> Jobs],
   old : [Keys -> Platformed], done : [Keys -> Platformed]]
Published == [Keys -> [body : Commits, assets : [Where -> Commits]]]

\* The types of the variables.
TypeOK ==
  /\ head \in Heads
  /\ variant \in Nat \ {0}
  /\ release \in Published
  /\ run \in [Runs -> RunType]
  /\ faults \in Nat
  /\ broken \subseteq Keys
  /\ unlisted \subseteq Keys

\* The order in which the refs of a run are looked at is one of refs.
LEMMA OrderType ==
  ASSUME NEW w \in Wanted
  PROVE  Order(w) \in Plans
PROOF
<1>. USE DEF Plans
<1>1. Branches \in Plans /\ Tags \in Plans /\ w \in Plans
  BY PipelineAssumption
<1>2. Branches \o Tags \in Plans
  BY <1>1
<1>. QED  BY <1>1, <1>2 DEF Order

\* A batch of a plan is a plan.
LEMMA BatchedType ==
  ASSUME NEW plan \in Plans
  PROVE  Batched(plan) \in Plans
PROOF
<1>. USE DEF Plans
<1>1. Batch \in Nat
  BY PipelineAssumption
<1>2. \A m \in 0..Len(plan) : SubSeq(plan, 1, m) \in Plans
  OBVIOUS
<1>. QED  BY <1>1, <1>2 DEF Batched

\* The jobs a publisher is given.
LEMMA JobNames == {"wait", "list", "delete", "upload", "done"} \subseteq Jobs
  BY DEF Jobs, Midway

\* NoRun is a run.
LEMMA NoRunType == NoRun \in RunType
  BY DEF NoRun, RunType, Jobs, Midway, Pcs, Plans, Matrices, LegSets, Platformed, Heads

\* The legs of what is planned are legs.
LEMMA LegsType ==
  ASSUME NEW k \in Keys
  PROVE  LegsOf(k) \subseteq Keys \X Where
  BY DEF LegsOf, Where

\* Types are kept.
LEMMA TypeStep == TypeOK /\ [Next]_vars => TypeOK'
PROOF
<1>. SUFFICES ASSUME TypeOK, [Next]_vars  PROVE TypeOK'
  OBVIOUS
<1>t. /\ head \in Heads /\ variant \in Nat /\ release \in Published
      /\ run \in [Runs -> RunType]
  BY DEF TypeOK
<1>r. \A n \in Runs : run[n] \in RunType
  BY <1>t
<1>j. {"wait", "list", "delete", "upload", "done"} \subseteq Jobs /\ None \in Commits
  BY JobNames DEF None, From, Commits
<1>1. CASE UpstreamMoves
  BY <1>1 DEF UpstreamMoves, TypeOK, Heads
<1>2. CASE VariantMoves
  BY <1>2 DEF VariantMoves, TypeOK
<1>3. ASSUME NEW n \in Runs, NEW force \in BOOLEAN, Dispatch(n, force)  PROVE TypeOK'
  <2>1. PICK w \in Wanted :
          run' = [run EXCEPT ![n].pc = "clone", ![n].force = force, ![n].own = variant,
                             ![n].left = Order(w)]
    BY <1>3 DEF Dispatch
  <2>. DEFINE r == [run[n] EXCEPT !.pc = "clone", !.force = force, !.own = variant,
                                  !.left = Order(w)]
  <2>2. r \in RunType
    BY <1>t, <1>r, OrderType DEF RunType, Pcs
  <2>3. run' = [run EXCEPT ![n] = r]
    BY <2>1
  <2>4. run' \in [Runs -> RunType]
    BY <1>t, <2>2, <2>3
  <2>. QED  BY <1>3, <2>4 DEF Dispatch, TypeOK
<1>4. ASSUME NEW n \in Runs, Clone(n)  PROVE TypeOK'
  <2>. DEFINE r == [run[n] EXCEPT !.pc = "look", !.heads = head]
  <2>1. r \in RunType
    BY <1>t, <1>r DEF RunType, Pcs
  <2>2. run' = [run EXCEPT ![n] = r]
    BY <1>4 DEF Clone
  <2>3. run' \in [Runs -> RunType]
    BY <1>t, <2>1, <2>2
  <2>. QED  BY <1>4, <2>3 DEF Clone, TypeOK
<1>5. ASSUME NEW n \in Runs, Look(n)  PROVE TypeOK'
  <2>1. run[n].left \in Plans /\ run[n].left # << >> /\ run[n].plan \in Plans
    BY <1>5, <1>r DEF Look, RunType
  <2>2. Tail(run[n].left) \in Plans /\ Head(run[n].left) \in Refs
    BY <2>1 DEF Plans
  <2>3. Append(run[n].plan, Head(run[n].left)) \in Plans
    BY <2>1, <2>2 DEF Plans
  <2>4. PICK plan \in Plans :
          run' = [run EXCEPT ![n].left = Tail(@), ![n].plan = plan]
    BY <1>5, <2>1, <2>3 DEF Look
  <2>. DEFINE r == [run[n] EXCEPT !.left = Tail(@), !.plan = plan]
  <2>5. r \in RunType
    BY <1>r, <2>2 DEF RunType
  <2>6. run' = [run EXCEPT ![n] = r]
    BY <2>4
  <2>7. run' \in [Runs -> RunType]
    BY <1>t, <2>5, <2>6
  <2>. QED  BY <1>5, <2>7 DEF Look, Wrong, TypeOK
<1>6. ASSUME NEW n \in Runs, Planned(n)  PROVE TypeOK'
  <2>. DEFINE plan == Batched(run[n].plan)
              keys == Range(plan) \cup {RS}
              legs == UNION {LegsOf(k) : k \in keys}
              job == [k \in Keys |-> IF k \in keys THEN "wait" ELSE "none"]
              r == [run[n] EXCEPT !.pc = "work", !.plan = plan, !.matrix = {"build", RS},
                                  !.legs = legs, !.job = job]
  <2>1. plan \in Plans
    BY <1>r, BatchedType DEF RunType
  <2>2. keys \subseteq Keys
    BY <2>1 DEF Range, Keys, Plans
  <2>3. legs \in LegSets /\ {"build", RS} \in Matrices
    BY <2>2, LegsType DEF LegSets, Matrices
  <2>4. job \in [Keys -> Jobs]
    BY DEF Jobs
  <2>5. run' = [run EXCEPT ![n] = r]
    BY <1>6 DEF Planned
  <2>6. r \in RunType
    <3>. HIDE DEF plan, legs, job
    <3>. QED  BY <1>r, <2>1, <2>3, <2>4 DEF RunType, Pcs
  <2>7. run' \in [Runs -> RunType]
    <3>. HIDE DEF r
    <3>. QED  BY <1>t, <2>5, <2>6
  <2>. QED  BY <1>6, <2>7 DEF Planned, TypeOK
<1>7. ASSUME NEW n \in Runs, Built(n)  PROVE TypeOK'
  <2>1. run[n].matrix \in Matrices /\ run[n].legs \in LegSets /\ run[n].built \in LegSets
    BY <1>r DEF RunType
  <2>2. PICK m \in run[n].matrix, lost \in SUBSET run[n].legs : Built(n)!2!(m, lost)
    BY <1>7 DEF Built
  <2>. DEFINE legs == {leg \in run[n].legs : (leg[1] = RS) = (m = RS)}
              r == [run[n] EXCEPT !.matrix = @ \ {m}, !.legs = @ \ legs,
                                  !.built = @ \cup ((legs \ lost) \cap Builds)]
  <2>3. /\ run[n].matrix \ {m} \in Matrices
        /\ run[n].legs \ legs \in LegSets
        /\ run[n].built \cup ((legs \ lost) \cap Builds) \in LegSets
    BY <2>1 DEF Matrices, LegSets
  <2>4. run' = [run EXCEPT ![n] = r]
    BY <2>2
  <2>5. r \in RunType
    <3>. HIDE DEF legs
    <3>. QED  BY <1>r, <2>3 DEF RunType
  <2>6. run' \in [Runs -> RunType]
    <3>. HIDE DEF r
    <3>. QED  BY <1>t, <2>4, <2>5
  <2>7. /\ faults' = faults \/ faults' = faults + 1
        /\ UNCHANGED <<head, variant, release, broken, unlisted>>
    BY <1>7 DEF Built, Wrong
  <2>. QED  BY <2>6, <2>7 DEF TypeOK
<1>8. ASSUME NEW n \in Runs, End(n)  PROVE TypeOK'
  BY <1>8, NoRunType DEF End, TypeOK
<1>9. ASSUME NEW n \in Runs, Cancel(n)  PROVE TypeOK'
  BY <1>9, NoRunType DEF Cancel, Wrong, TypeOK
<1>10. ASSUME NEW n \in Runs, NEW k \in Keys, Begin(n, k)  PROVE TypeOK'
  <2>1. Body(n, k) \in Commits
    BY <1>r DEF Body, From, Commits, RunType, Keys, Heads
  <2>2. release' \in Published
    BY <1>10, <1>t, <2>1 DEF Begin, Published
  <2>. DEFINE j == IF Publishes(n, k) THEN IF Exists(k) THEN "list" ELSE "upload" ELSE "done"
              r == [run[n] EXCEPT !.job = [@ EXCEPT ![k] = j]]
  <2>3. j \in Jobs
    BY <1>j
  <2>4. r \in RunType
    <3>. HIDE DEF j
    <3>. QED  BY <1>r, <2>3 DEF RunType
  <2>5. run' = [run EXCEPT ![n] = r]
    BY <1>10 DEF Begin
  <2>6. run' \in [Runs -> RunType]
    BY <1>t, <2>4, <2>5
  <2>. QED  BY <1>10, <2>2, <2>6 DEF Begin, TypeOK
<1>11. ASSUME NEW n \in Runs, NEW k \in Keys, List(n, k)  PROVE TypeOK'
  <2>. DEFINE r == [run[n] EXCEPT !.job = [@ EXCEPT ![k] = "delete"],
                                  !.old = [@ EXCEPT ![k] = Listed(k)]]
  <2>1. Listed(k) \in Platformed
    BY DEF Listed, Assets, Where, Platformed
  <2>2. r \in RunType
    BY <1>r, <1>j, <2>1 DEF RunType
  <2>3. run' = [run EXCEPT ![n] = r]
    BY <1>11 DEF List
  <2>4. run' \in [Runs -> RunType]
    BY <1>t, <2>2, <2>3
  <2>. QED  BY <1>11, <2>4 DEF List, TypeOK
<1>12. ASSUME NEW n \in Runs, NEW k \in Keys, Delete(n, k)  PROVE TypeOK'
  <2>1. CASE run' = [run EXCEPT ![n].job[k] = "upload"] /\ UNCHANGED release
    <3>. DEFINE r == [run[n] EXCEPT !.job = [@ EXCEPT ![k] = "upload"]]
    <3>1. r \in RunType
      BY <1>r, <1>j DEF RunType
    <3>2. run' = [run EXCEPT ![n] = r]
      BY <2>1
    <3>3. run' \in [Runs -> RunType]
      BY <1>t, <3>1, <3>2
    <3>. QED  BY <1>12, <2>1, <3>3 DEF Delete, TypeOK
  <2>2. ASSUME NEW p \in Where, release' = [release EXCEPT ![k].assets[p] = None],
               run' = [run EXCEPT ![n].old[k] = @ \ {p}]
        PROVE  TypeOK'
    <3>. DEFINE some == run[n].old[k] \ {p}
                r == [run[n] EXCEPT !.old = [@ EXCEPT ![k] = some]]
    <3>1. some \in Platformed
      BY <1>r DEF RunType, Platformed
    <3>2. run' = [run EXCEPT ![n] = r]
      BY <2>2
    <3>3. run' \in [Runs -> RunType]
      <4>1. r \in RunType
        <5>. HIDE DEF some
        <5>. QED  BY <1>r, <3>1 DEF RunType
      <4>. QED  BY <1>t, <3>2, <4>1
    <3>4. release' \in Published
      BY <1>t, <1>j, <2>2 DEF Published
    <3>. QED  BY <1>12, <3>3, <3>4 DEF Delete, TypeOK
  <2>. QED  BY <1>12, <2>1, <2>2 DEF Delete, Assets, Where
<1>13. ASSUME NEW n \in Runs, NEW k \in Keys, Upload(n, k)  PROVE TypeOK'
  <2>1. CASE run' = [run EXCEPT ![n].job[k] = "done"] /\ broken' = broken \ {k}
               /\ UNCHANGED release
    <3>. DEFINE r == [run[n] EXCEPT !.job = [@ EXCEPT ![k] = "done"]]
    <3>1. r \in RunType
      BY <1>r, <1>j DEF RunType
    <3>2. run' = [run EXCEPT ![n] = r]
      BY <2>1
    <3>3. run' \in [Runs -> RunType]
      BY <1>t, <3>1, <3>2
    <3>. QED  BY <1>13, <2>1, <3>3 DEF Upload, TypeOK
  <2>2. ASSUME NEW p \in Where, release' = [release EXCEPT ![k].assets[p] = Body(n, k)],
               run' = [run EXCEPT ![n].done[k] = @ \cup {p}], UNCHANGED broken
        PROVE  TypeOK'
    <3>. DEFINE some == run[n].done[k] \cup {p}
                r == [run[n] EXCEPT !.done = [@ EXCEPT ![k] = some]]
    <3>1. some \in Platformed
      BY <1>r DEF RunType, Platformed
    <3>2. run' = [run EXCEPT ![n] = r]
      BY <2>2
    <3>3. run' \in [Runs -> RunType]
      <4>1. r \in RunType
        <5>. HIDE DEF some
        <5>. QED  BY <1>r, <3>1 DEF RunType
      <4>. QED  BY <1>t, <3>2, <4>1
    <3>4. Body(n, k) \in Commits
      BY <1>r DEF Body, From, Commits, RunType, Keys, Heads
    <3>5. release' \in Published
      BY <1>t, <3>4, <2>2 DEF Published
    <3>. QED  BY <1>13, <2>2, <3>3, <3>5 DEF Upload, TypeOK
  <2>. QED  BY <1>13, <2>1, <2>2 DEF Upload, Binaries, Where
<1>14. ASSUME NEW n \in Runs, NEW k \in Keys, Fails(n, k)  PROVE TypeOK'
  <2>. DEFINE r == [run[n] EXCEPT !.job = [@ EXCEPT ![k] = "done"]]
  <2>1. r \in RunType
    BY <1>r, <1>j DEF RunType
  <2>2. run' = [run EXCEPT ![n] = r]
    BY <1>14 DEF Fails
  <2>3. run' \in [Runs -> RunType]
    BY <1>t, <2>1, <2>2
  <2>. QED  BY <1>14, <2>3 DEF Fails, Wrong, TypeOK
<1>15. ASSUME NEW n \in Runs, NEW k \in Keys, ListFails(n, k)  PROVE TypeOK'
  <2>. DEFINE r == [run[n] EXCEPT !.job = [@ EXCEPT ![k] = "upload"]]
  <2>1. r \in RunType
    BY <1>r, <1>j DEF RunType
  <2>2. run' = [run EXCEPT ![n] = r]
    BY <1>15 DEF ListFails
  <2>3. run' \in [Runs -> RunType]
    BY <1>t, <2>1, <2>2
  <2>. QED  BY <1>15, <2>3 DEF ListFails, Wrong, TypeOK
<1>16. CASE UNCHANGED vars
  BY <1>16 DEF vars, TypeOK
<1>. QED
  BY <1>1, <1>2, <1>3, <1>4, <1>5, <1>6, <1>7, <1>8, <1>9, <1>10, <1>11, <1>12, <1>13,
     <1>14, <1>15, <1>16 DEF Next, Step

-----------------------------------------------------------------------------
Publishing(n, k) == run[n].job[k] \in Midway

\* No two runs are in the middle of the same release.  Nothing in the file sees to it
\* but that whoever starts them waits for the last.
Alone ==
  \A k \in Keys, m, n \in Runs : Publishing(m, k) /\ Publishing(n, k) => m = n

\* A run that is under way knows its own commit, and has jobs once it is planned.
Started ==
  \A n \in Runs :
    /\ run[n].pc # "off" => run[n].own # 0
    /\ \A k \in Keys : run[n].job[k] # "none" => run[n].pc = "work"

\* Nothing is uploaded before its turn.
Unspent ==
  \A n \in Runs, k \in Keys :
    run[n].job[k] \in {"none", "wait", "list", "delete"} => run[n].done[k] = {}

\* There are no assets of a release that there is not, and of the radio server's none but
\* for its platforms.
BackedAt(k) ==
  /\ ~Exists(k) => Assets(k) = {}
  /\ k = RS => Assets(k) \subseteq RsPlatforms
Backed == \A k \in Keys : BackedAt(k)

\* What a publisher knows of the release in its middle: it has enough to publish, the
\* body names its commits; what is still to be deleted is on its list; what it has
\* uploaded is there, from its commits, and nothing else unless the listing failed.
Midpoint(n, k) ==
  /\ Ready(n, k) /\ Publishes(n, k)
  /\ release[k].body = Body(n, k)
  /\ run[n].job[k] = "delete" => k \notin unlisted /\ Assets(k) \subseteq run[n].old[k]
  /\ run[n].job[k] = "upload" =>
       /\ run[n].done[k] \subseteq Assets(k) /\ run[n].done[k] \subseteq Binaries(n, k)
       /\ \A p \in run[n].done[k] : release[k].assets[p] = Body(n, k)
       /\ k \notin unlisted => Assets(k) = run[n].done[k]
Tracked == \A n \in Runs, k \in Keys : Publishing(n, k) => Midpoint(n, k)

\* What is left behind by a publisher that got to its end.
Good(k) ==
  /\ \E p \in Assets(k) : AsNamed(k, p)
  /\ k \notin unlisted => \A p \in Assets(k) : AsNamed(k, p)
  /\ k = RS => Assets(k) = RsPlatforms /\ \A p \in RsPlatforms : AsNamed(k, p)
LeftGood(k) == Complete(k) => Good(k)
Left == \A k \in Keys : LeftGood(k)

IInv == Started /\ Unspent /\ Backed /\ Tracked /\ Left

\* All but n are where they were; n's commits, legs and what it has built are, and it
\* has the same job for k.
Others(n) == \A m \in Runs : m # n => run'[m] = run[m]
Framed(n) ==
  /\ run'[n].pc = run[n].pc /\ run'[n].own = run[n].own /\ run'[n].heads = run[n].heads
  /\ run'[n].matrix = run[n].matrix /\ run'[n].built = run[n].built
SameJob(n, k) ==
  /\ run'[n].job[k] = run[n].job[k] /\ run'[n].old[k] = run[n].old[k]
  /\ run'[n].done[k] = run[n].done[k]
SameRelease(k) == release'[k] = release[k] /\ (k \in unlisted' <=> k \in unlisted)

\* A step that changes neither the release nor the run keeps what the publisher knows.
LEMMA MidpointKept ==
  ASSUME NEW n \in Runs, NEW k \in Keys, Midpoint(n, k), SameRelease(k),
         SameJob(n, k), run'[n].own = run[n].own, run'[n].heads = run[n].heads,
         Ready(n, k)', Binaries(n, k)' = Binaries(n, k)
  PROVE  Midpoint(n, k)'
PROOF
<1>1. Body(n, k)' = Body(n, k)
  BY DEF Body
<1>2. Assets(k)' = Assets(k)
  BY DEF Assets, SameRelease
<1>3. Publishes(n, k)'
  BY DEF Publishes, Midpoint
<1>. QED  BY <1>1, <1>2, <1>3 DEF Midpoint, SameJob, SameRelease

\* The same of a run that does not move at all.
LEMMA MidpointStill ==
  ASSUME NEW n \in Runs, NEW k \in Keys, Midpoint(n, k), SameRelease(k),
         run'[n] = run[n]
  PROVE  Midpoint(n, k)'
PROOF
<1>1. Ready(n, k)' /\ Binaries(n, k)' = Binaries(n, k)
  BY DEF Midpoint, Ready, Binaries
<1>. QED  BY <1>1, MidpointKept DEF SameJob

\* A release that is not touched stays good, unless its publisher stopped midway.
LEMMA LeftKept ==
  ASSUME NEW k \in Keys, LeftGood(k), SameRelease(k),
         k \in broken => k \in broken', Busy(k) => Busy(k)' \/ k \in broken'
  PROVE  LeftGood(k)'
PROOF
<1>1. Exists(k)' = Exists(k) /\ Assets(k)' = Assets(k)
  BY DEF Exists, Assets, SameRelease
<1>2. \A p : AsNamed(k, p)' = AsNamed(k, p)
  BY DEF AsNamed, SameRelease
<1>3. Good(k) => Good(k)'
  BY <1>1, <1>2 DEF Good, SameRelease
<1>. QED  BY <1>1, <1>3 DEF LeftGood, Complete

\* A step of a run that publishes nothing before it is done, or that stops.
LEMMA Quiet ==
  ASSUME NEW n \in Runs, Backed, Tracked, Left, Others(n), UNCHANGED <<release, unlisted>>,
         broken \subseteq broken',
         \A k \in Keys : ~Publishing(n, k)' /\ (Publishing(n, k) => k \in broken')
  PROVE  Backed' /\ Tracked' /\ Left'
PROOF
<1>1. Backed' /\ \A k \in Keys : SameRelease(k)
  BY DEF Backed, BackedAt, Exists, Assets, SameRelease
<1>2. ASSUME NEW m \in Runs, NEW k \in Keys, Publishing(m, k)'  PROVE Midpoint(m, k)'
  <2>1. m # n
    BY <1>2
  <2>2. run'[m] = run[m]
    BY <2>1 DEF Others
  <2>3. Midpoint(m, k)
    BY <1>2, <2>2 DEF Tracked, Publishing
  <2>. QED  BY <1>1, <2>2, <2>3, MidpointStill
<1>3. ASSUME NEW k \in Keys  PROVE LeftGood(k)'
  <2>1. ASSUME NEW m \in Runs, Publishing(m, k)  PROVE Publishing(m, k)' \/ k \in broken'
    BY <2>1 DEF Publishing, Others
  <2>2. Busy(k) => Busy(k)' \/ k \in broken'
    BY <2>1 DEF Busy, Publishing
  <2>. QED  BY <1>1, <2>2, LeftKept DEF Left
<1>. QED  BY <1>1, <1>2, <1>3 DEF Tracked, Left

\* A step of one publisher: what has to be seen of it is its own release.
LEMMA OnlyAt ==
  ASSUME NEW n \in Runs, NEW k \in Keys, Backed, Tracked, Left, Others(n), Framed(n),
         \A l \in Keys : l # k => /\ SameJob(n, l) /\ SameRelease(l)
                                  /\ l \in broken => l \in broken',
         SameRelease(k) \/ \A m \in Runs : m # n => ~Publishing(m, k),
         BackedAt(k)',
         Publishing(n, k)' => Midpoint(n, k)',
         LeftGood(k)'
  PROVE  Backed' /\ Tracked' /\ Left'
PROOF
<1>1. ASSUME NEW l \in Keys  PROVE BackedAt(l)'
  BY <1>1 DEF Backed, BackedAt, Exists, Assets, SameRelease
<1>2. ASSUME NEW m \in Runs, NEW l \in Keys, Publishing(m, l)'  PROVE Midpoint(m, l)'
  <2>1. CASE m # n
    <3>1. run'[m] = run[m]
      BY <2>1 DEF Others
    <3>2. Publishing(m, l)
      BY <1>2, <3>1 DEF Publishing
    <3>3. SameRelease(l)
      BY <2>1, <3>2
    <3>. QED  BY <3>1, <3>2, <3>3, MidpointStill DEF Tracked
  <2>2. CASE m = n /\ l # k
    <3>1. Publishing(n, l)
      BY <1>2, <2>2 DEF Publishing, SameJob
    <3>2. Midpoint(n, l)
      BY <3>1 DEF Tracked
    <3>3. Ready(n, l)' /\ Binaries(n, l)' = Binaries(n, l)
      BY <3>2 DEF Midpoint, Ready, Binaries, Framed
    <3>. QED  BY <2>2, <3>2, <3>3, MidpointKept DEF Framed
  <2>. QED  BY <1>2, <2>1, <2>2
<1>3. ASSUME NEW l \in Keys  PROVE LeftGood(l)'
  <2>1. CASE l # k
    <3>1. ASSUME NEW m \in Runs, Publishing(m, l)  PROVE Publishing(m, l)'
      BY <2>1, <3>1 DEF Publishing, Others, SameJob
    <3>2. Busy(l) => Busy(l)'
      BY <3>1 DEF Busy, Publishing
    <3>. QED  BY <2>1, <3>2, LeftKept DEF Left
  <2>. QED  BY <2>1
<1>. QED  BY <1>1, <1>2, <1>3 DEF Backed, Tracked, Left

\* What setting a job leaves alone.
LEMMA JobSet ==
  ASSUME NEW n \in Runs, NEW k \in Keys, NEW j \in Jobs, TypeOK,
         run' = [run EXCEPT ![n].job[k] = j]
  PROVE  /\ Others(n) /\ Framed(n) /\ run'[n].job[k] = j
         /\ run'[n].old[k] = run[n].old[k] /\ run'[n].done[k] = run[n].done[k]
         /\ \A l \in Keys : l # k => SameJob(n, l)
PROOF
<1>1. run \in [Runs -> RunType] /\ run[n] \in RunType
  BY DEF TypeOK
<1>2. run' = [run EXCEPT ![n] = [run[n] EXCEPT !.job = [run[n].job EXCEPT ![k] = j]]]
  BY <1>1
<1>3. run'[n] = [run[n] EXCEPT !.job = [run[n].job EXCEPT ![k] = j]]
  BY <1>1, <1>2
<1>. QED  BY <1>1, <1>2, <1>3 DEF Others, Framed, SameJob, RunType

\* Body and binaries of a run that is only set a job are what they were.
LEMMA FramedKeeps ==
  ASSUME NEW n \in Runs, NEW k \in Keys, Framed(n)
  PROVE  /\ Binaries(n, k)' = Binaries(n, k) /\ Body(n, k)' = Body(n, k)
         /\ Publishes(n, k)' = Publishes(n, k) /\ Ready(n, k)' = Ready(n, k)
PROOF
<1>1. Binaries(n, k)' = Binaries(n, k)
  BY DEF Binaries, Framed
<1>. QED  BY <1>1 DEF Publishes, Ready, Body, Framed

\* The histories of a run whose job alone is set, and has come later than what it was.
LEMMA Ordered ==
  ASSUME NEW n \in Runs, NEW k \in Keys, Started, Unspent, Others(n), Framed(n),
         \A l \in Keys : l # k => SameJob(n, l),
         run[n].job[k] # "none",
         run'[n].job[k] \in {"none", "wait", "list", "delete"} => run'[n].done[k] = {}
  PROVE  Started' /\ Unspent'
PROOF
<1>1. ASSUME NEW m \in Runs, run'[m].pc # "off"  PROVE run'[m].own # 0
  BY <1>1 DEF Started, Others, Framed
<1>2. ASSUME NEW m \in Runs, NEW l \in Keys, run'[m].job[l] # "none"
      PROVE  run'[m].pc = "work"
  BY <1>2 DEF Started, Others, Framed, SameJob
<1>3. ASSUME NEW m \in Runs, NEW l \in Keys,
             run'[m].job[l] \in {"none", "wait", "list", "delete"}
      PROVE  run'[m].done[l] = {}
  BY <1>3 DEF Unspent, Others, SameJob
<1>. QED  BY <1>1, <1>2, <1>3 DEF Started, Unspent

\* What a run publishes names a commit.
LEMMA BodyIsSome ==
  ASSUME NEW n \in Runs, NEW k \in Keys, Started, run[n].pc = "work"
  PROVE  Body(n, k) # None
PROOF
<1>1. run[n].own # 0
  BY DEF Started
<1>. QED  BY <1>1 DEF Body, None, From

\* The body is written, and with it the release says what it does not hold yet.
LEMMA BeginKeeps ==
  ASSUME NEW n \in Runs, NEW k \in Keys, TypeOK, IInv, Alone', Begin(n, k)
  PROVE  IInv'
PROOF
<1>. USE DEF IInv
<1>0. /\ release \in Published
      /\ run[n].job[k] = "wait" /\ run[n].pc = "work" /\ run[n].done[k] = {} /\ Ready(n, k)
  BY DEF Begin, Working, Unspent, TypeOK
<1>1. CASE ~Publishes(n, k)
  <2>1. run' = [run EXCEPT ![n].job[k] = "done"] /\ UNCHANGED <<release, broken, unlisted>>
    BY <1>1 DEF Begin
  <2>2. /\ Others(n) /\ Framed(n) /\ run'[n].job[k] = "done"
        /\ \A l \in Keys : l # k => SameJob(n, l)
    BY <2>1, JobSet, JobNames
  <2>3. ~Publishing(n, k) /\ ~Publishing(n, k)'
    BY <1>0, <2>2 DEF Publishing, Midway
  <2>4. (Busy(k) => Busy(k)') /\ \A l \in Keys : SameRelease(l)
    BY <2>1, <2>2, <2>3 DEF Busy, Publishing, Others, SameRelease
  <2>5. LeftGood(k)'
    BY <2>1, <2>4, LeftKept DEF Left
  <2>6. BackedAt(k)'
    BY <2>1 DEF Backed, BackedAt, Exists, Assets
  <2>7. Started' /\ Unspent'
    BY <1>0, <2>2, Ordered
  <2>. QED  BY <2>1, <2>2, <2>3, <2>4, <2>5, <2>6, <2>7, OnlyAt
<1>2. CASE Publishes(n, k)
  <2>. DEFINE j == IF Exists(k) THEN "list" ELSE "upload"
  <2>1. run' = [run EXCEPT ![n].job[k] = j] /\ release' = [release EXCEPT ![k].body = Body(n, k)]
          /\ UNCHANGED <<broken, unlisted>>
    BY <1>2 DEF Begin
  <2>2. /\ Others(n) /\ Framed(n) /\ run'[n].job[k] = j
        /\ run'[n].done[k] = run[n].done[k]
        /\ \A l \in Keys : l # k => SameJob(n, l)
    <3>1. j \in Jobs
      BY JobNames
    <3>. HIDE DEF j
    <3>. QED  BY <2>1, <3>1, JobSet
  <2>3. /\ release'[k].body = Body(n, k) /\ release'[k].assets = release[k].assets
        /\ \A l \in Keys : l # k => SameRelease(l)
    BY <1>0, <2>1 DEF Published, SameRelease
  <2>4. Publishing(n, k)' /\ Busy(k)'
    BY <2>2 DEF Publishing, Midway, Busy
  <2>5. ASSUME NEW m \in Runs, m # n  PROVE ~Publishing(m, k)
    BY <2>2, <2>4, <2>5 DEF Alone, Publishing, Others
  <2>6. Body(n, k) # None
    BY <1>0, BodyIsSome
  <2>7. Exists(k)' /\ Assets(k)' = Assets(k)
    BY <2>3, <2>6 DEF Exists, Assets
  <2>8. Midpoint(n, k)'
    <3>1. ~Exists(k) => Assets(k)' = {} /\ run'[n].done[k] = {}
      BY <1>0, <2>2, <2>7 DEF Backed, BackedAt
    <3>2. Ready(n, k)' /\ Publishes(n, k)' /\ release'[k].body = Body(n, k)'
      BY <1>0, <1>2, <2>2, <2>3, FramedKeeps
    <3>. QED  BY <2>2, <3>1, <3>2 DEF Midpoint
  <2>9. Started' /\ Unspent'
    BY <1>0, <2>2, Ordered
  <2>10. LeftGood(k)'
    BY <2>4 DEF LeftGood, Complete
  <2>11. BackedAt(k)'
    BY <2>7 DEF Backed, BackedAt
  <2>. HIDE DEF j
  <2>. QED  BY <2>1, <2>2, <2>3, <2>5, <2>8, <2>9, <2>10, <2>11, OnlyAt
<1>. QED  BY <1>1, <1>2

\* While a publisher is in the middle of a release, nobody else is.
LEMMA NobodyElse ==
  ASSUME NEW n \in Runs, NEW k \in Keys, Alone, Publishing(n, k)
  PROVE  \A m \in Runs : m # n => ~Publishing(m, k)
  BY DEF Alone

\* The publisher lists what is there.
LEMMA ListKeeps ==
  ASSUME NEW n \in Runs, NEW k \in Keys, TypeOK, IInv, Alone, List(n, k)
  PROVE  IInv'
PROOF
<1>. USE DEF IInv
<1>. DEFINE r == [run[n] EXCEPT !.job = [run[n].job EXCEPT ![k] = "delete"],
                                !.old = [run[n].old EXCEPT ![k] = Listed(k)]]
<1>1. run \in [Runs -> RunType] /\ run[n] \in RunType
  BY DEF TypeOK
<1>2. /\ run' = [run EXCEPT ![n] = r] /\ UNCHANGED <<release, broken>>
      /\ unlisted' = unlisted \ {k} /\ \A l \in Keys : l # k => SameRelease(l)
  BY <1>1 DEF List, SameRelease
<1>3. /\ run[n].job[k] = "list" /\ run[n].pc = "work" /\ run[n].done[k] = {}
      /\ Publishing(n, k)
  BY DEF List, Working, Unspent, Publishing, Midway
<1>4. /\ r.pc = run[n].pc /\ r.own = run[n].own /\ r.heads = run[n].heads
      /\ r.matrix = run[n].matrix /\ r.built = run[n].built /\ r.done = run[n].done
      /\ r.job[k] = "delete" /\ r.old[k] = Listed(k)
      /\ \A l \in Keys : l # k => r.job[l] = run[n].job[l] /\ r.old[l] = run[n].old[l]
  BY <1>1 DEF RunType
<1>. HIDE DEF r
<1>5. Others(n) /\ run'[n] = r
  BY <1>1, <1>2 DEF Others
<1>6. Framed(n) /\ \A l \in Keys : l # k => SameJob(n, l)
  BY <1>4, <1>5 DEF Framed, SameJob
<1>7. Assets(k)' = Assets(k) /\ Exists(k)' = Exists(k)
  BY <1>2 DEF Assets, Exists
<1>8. Publishing(n, k)' /\ Busy(k)'
  BY <1>4, <1>5 DEF Publishing, Busy, Midway
<1>9. Midpoint(n, k)'
  <2>1. Midpoint(n, k)
    BY <1>3 DEF Tracked
  <2>2. Ready(n, k)' /\ Publishes(n, k)' /\ release'[k].body = Body(n, k)'
    BY <1>2, <1>6, <2>1, FramedKeeps DEF Midpoint
  <2>3. run'[n].job[k] = "delete" /\ run'[n].old[k] = Assets(k)
    BY <1>4, <1>5 DEF Listed
  <2>. QED  BY <1>2, <1>7, <2>2, <2>3 DEF Midpoint
<1>10. Started' /\ Unspent'
  BY <1>3, <1>4, <1>5, <1>6, Ordered
<1>11. LeftGood(k)'
  BY <1>8 DEF LeftGood, Complete
<1>12. BackedAt(k)'
  BY <1>7 DEF Backed, BackedAt
<1>13. \A m \in Runs : m # n => ~Publishing(m, k)
  BY <1>3, NobodyElse
<1>. QED  BY <1>2, <1>5, <1>6, <1>9, <1>10, <1>11, <1>12, <1>13, OnlyAt

\* The listing fails: whatever there is stays, and the release is marked.
LEMMA ListFailsKeeps ==
  ASSUME NEW n \in Runs, NEW k \in Keys, TypeOK, IInv, Alone, ListFails(n, k)
  PROVE  IInv'
PROOF
<1>. USE DEF IInv
<1>1. /\ run[n].job[k] = "list" /\ run[n].done[k] = {} /\ Publishing(n, k)
      /\ UNCHANGED <<release, broken>> /\ unlisted' = unlisted \cup {k}
      /\ \A l \in Keys : l # k => SameRelease(l)
  BY DEF ListFails, Working, Unspent, Publishing, Midway, SameRelease
<1>2. run' = [run EXCEPT ![n].job[k] = "upload"]
  BY DEF ListFails
<1>3. /\ Others(n) /\ Framed(n) /\ run'[n].job[k] = "upload" /\ run'[n].done[k] = {}
      /\ \A l \in Keys : l # k => SameJob(n, l)
  BY <1>1, <1>2, JobSet, JobNames
<1>4. Midpoint(n, k)'
  <2>1. Midpoint(n, k)
    BY <1>1 DEF Tracked
  <2>2. Ready(n, k)' /\ Publishes(n, k)' /\ release'[k].body = Body(n, k)'
    BY <1>1, <1>3, <2>1, FramedKeeps DEF Midpoint
  <2>. QED  BY <1>1, <1>3, <2>2 DEF Midpoint
<1>5. LeftGood(k)'
  BY <1>3 DEF LeftGood, Complete, Busy, Midway
<1>6. BackedAt(k)'
  BY <1>1 DEF Backed, BackedAt, Exists, Assets
<1>7. Started' /\ Unspent'
  BY <1>1, <1>3, Ordered
<1>8. \A m \in Runs : m # n => ~Publishing(m, k)
  BY <1>1, NobodyElse
<1>. QED  BY <1>1, <1>3, <1>4, <1>5, <1>6, <1>7, <1>8, OnlyAt

\* One of the old assets is deleted.
LEMMA DeleteKeeps ==
  ASSUME NEW n \in Runs, NEW k \in Keys, TypeOK, IInv, Alone, Delete(n, k)
  PROVE  IInv'
PROOF
<1>. USE DEF IInv
<1>1. /\ run \in [Runs -> RunType] /\ run[n] \in RunType /\ release \in Published
      /\ run[n].job[k] = "delete" /\ run[n].pc = "work" /\ run[n].done[k] = {}
      /\ Publishing(n, k) /\ UNCHANGED <<broken, unlisted>>
  BY DEF Delete, Working, Unspent, Publishing, Midway, TypeOK
<1>2. Midpoint(n, k)
  BY <1>1 DEF Tracked
<1>3. CASE run[n].old[k] = {} /\ run' = [run EXCEPT ![n].job[k] = "upload"]
             /\ UNCHANGED release
  <2>1. /\ Others(n) /\ Framed(n) /\ run'[n].job[k] = "upload"
        /\ run'[n].done[k] = run[n].done[k]
        /\ \A l \in Keys : l # k => SameJob(n, l)
    BY <1>3, JobSet, JobNames
  <2>2. /\ Assets(k)' = {} /\ Exists(k)' = Exists(k)
        /\ \A l \in Keys : SameRelease(l)
    BY <1>1, <1>2, <1>3 DEF Midpoint, Assets, Exists, SameRelease
  <2>3. Ready(n, k)' /\ Publishes(n, k)' /\ release'[k].body = Body(n, k)'
    BY <1>2, <1>3, <2>1, FramedKeeps DEF Midpoint
  <2>4. Midpoint(n, k)'
    BY <1>1, <2>1, <2>2, <2>3 DEF Midpoint
  <2>5. LeftGood(k)'
    BY <2>1 DEF LeftGood, Complete, Busy, Midway
  <2>6. Started' /\ Unspent'
    BY <1>1, <2>1, Ordered
  <2>7. BackedAt(k)'
    BY <2>2 DEF BackedAt
  <2>. QED  BY <1>1, <1>3, <2>1, <2>2, <2>4, <2>5, <2>6, <2>7, OnlyAt
<1>4. ASSUME NEW p \in run[n].old[k] \cap Assets(k),
             release' = [release EXCEPT ![k].assets[p] = None],
             run' = [run EXCEPT ![n].old[k] = @ \ {p}]
      PROVE  IInv'
  <2>. DEFINE some == run[n].old[k] \ {p}
              r == [run[n] EXCEPT !.old = [run[n].old EXCEPT ![k] = some]]
  <2>1. run' = [run EXCEPT ![n] = r]
    BY <1>4
  <2>. HIDE DEF some
  <2>2. /\ r.pc = run[n].pc /\ r.own = run[n].own /\ r.heads = run[n].heads
        /\ r.matrix = run[n].matrix /\ r.built = run[n].built /\ r.done = run[n].done
        /\ r.job = run[n].job /\ r.old[k] = some
        /\ \A l \in Keys : l # k => r.old[l] = run[n].old[l]
    BY <1>1 DEF RunType
  <2>. HIDE DEF r
  <2>3. Others(n) /\ run'[n] = r
    BY <1>1, <2>1 DEF Others
  <2>4. Framed(n) /\ \A l \in Keys : l # k => SameJob(n, l)
    BY <2>2, <2>3 DEF Framed, SameJob
  <2>5. /\ release'[k].body = release[k].body
        /\ \A q \in Where : release'[k].assets[q] = IF q = p THEN None ELSE release[k].assets[q]
        /\ \A l \in Keys : l # k => SameRelease(l)
    BY <1>1, <1>4 DEF Published, SameRelease
  <2>6. Assets(k)' = Assets(k) \ {p} /\ Exists(k)' = Exists(k)
    BY <2>5 DEF Assets, Exists, Where
  <2>7. Ready(n, k)' /\ Publishes(n, k)' /\ release'[k].body = Body(n, k)'
    BY <1>2, <2>4, <2>5, FramedKeeps DEF Midpoint
  <2>8. run'[n].job[k] = "delete" /\ run'[n].old[k] = some /\ run'[n].done[k] = {}
    BY <1>1, <2>2, <2>3
  <2>9. Assets(k)' \subseteq some
    BY <1>1, <1>2, <2>6 DEF some, Midpoint
  <2>10. Midpoint(n, k)'
    BY <1>1, <1>2, <2>7, <2>8, <2>9 DEF Midpoint
  <2>11. LeftGood(k)'
    BY <2>8 DEF LeftGood, Complete, Busy, Midway
  <2>12. Started' /\ Unspent'
    BY <1>1, <2>3, <2>4, <2>8, Ordered
  <2>13. BackedAt(k)'
    BY <2>6 DEF Backed, BackedAt
  <2>14. \A m \in Runs : m # n => ~Publishing(m, k)
    BY <1>1, NobodyElse
  <2>. QED  BY <1>1, <2>3, <2>4, <2>5, <2>10, <2>11, <2>12, <2>13, <2>14, OnlyAt
<1>. QED  BY <1>3, <1>4 DEF Delete

\* One of the new assets is uploaded.
LEMMA UploadKeeps ==
  ASSUME NEW n \in Runs, NEW k \in Keys, TypeOK, IInv, Alone, Upload(n, k)
  PROVE  IInv'
PROOF
<1>. USE DEF IInv
<1>1. /\ run \in [Runs -> RunType] /\ run[n] \in RunType /\ release \in Published
      /\ run[n].job[k] = "upload" /\ run[n].pc = "work" /\ Publishing(n, k)
      /\ UNCHANGED unlisted
  BY DEF Upload, Working, Publishing, Midway, TypeOK
<1>2. Midpoint(n, k)
  BY <1>1 DEF Tracked
<1>3. \A m \in Runs : m # n => ~Publishing(m, k)
  BY <1>1, NobodyElse
<1>4. CASE run[n].done[k] = Binaries(n, k) /\ run' = [run EXCEPT ![n].job[k] = "done"]
             /\ broken' = broken \ {k} /\ UNCHANGED release
  <2>0. run' = [run EXCEPT ![n].job[k] = "done"]
    BY <1>4
  <2>1. /\ Others(n) /\ Framed(n) /\ run'[n].job[k] = "done"
        /\ \A l \in Keys : l # k => SameJob(n, l)
    BY <2>0, JobSet, JobNames
  <2>2. /\ Assets(k)' = Assets(k) /\ Exists(k)' = Exists(k)
        /\ \A l \in Keys : SameRelease(l) /\ \A p : AsNamed(l, p)' = AsNamed(l, p)
    BY <1>1, <1>4 DEF Assets, Exists, SameRelease, AsNamed
  <2>3. /\ Binaries(n, k) \subseteq Assets(k) /\ Publishes(n, k)
        /\ \A p \in Binaries(n, k) : AsNamed(k, p)
        /\ k \notin unlisted => Assets(k) = Binaries(n, k)
    BY <1>1, <1>2, <1>4 DEF Midpoint, AsNamed
  <2>4. /\ Binaries(n, k) # {}
        /\ k = RS => Binaries(n, k) = RsPlatforms /\ Assets(k) \subseteq RsPlatforms
    BY <2>3, PipelineAssumption DEF Publishes, Backed, BackedAt
  <2>5. Good(k)'
    BY <1>1, <2>2, <2>3, <2>4 DEF Good
  <2>6. LeftGood(k)'
    BY <2>5 DEF LeftGood
  <2>7. Started' /\ Unspent'
    BY <1>1, <2>1, Ordered
  <2>8. ~Publishing(n, k)'
    BY <2>1 DEF Publishing, Midway
  <2>9. BackedAt(k)'
    BY <2>2 DEF Backed, BackedAt
  <2>. QED  BY <1>4, <2>1, <2>2, <2>6, <2>7, <2>8, <2>9, OnlyAt
<1>5. ASSUME NEW p \in Binaries(n, k) \ run[n].done[k],
             release' = [release EXCEPT ![k].assets[p] = Body(n, k)],
             run' = [run EXCEPT ![n].done[k] = @ \cup {p}], UNCHANGED broken
      PROVE  IInv'
  <2>. DEFINE some == run[n].done[k] \cup {p}
              r == [run[n] EXCEPT !.done = [run[n].done EXCEPT ![k] = some]]
  <2>1. run' = [run EXCEPT ![n] = r]
    BY <1>5
  <2>. HIDE DEF some
  <2>2. /\ r.pc = run[n].pc /\ r.own = run[n].own /\ r.heads = run[n].heads
        /\ r.matrix = run[n].matrix /\ r.built = run[n].built /\ r.old = run[n].old
        /\ r.job = run[n].job /\ r.done[k] = some
        /\ \A l \in Keys : l # k => r.done[l] = run[n].done[l]
    BY <1>1 DEF RunType
  <2>. HIDE DEF r
  <2>3. Others(n) /\ run'[n] = r
    BY <1>1, <2>1 DEF Others
  <2>4. Framed(n) /\ \A l \in Keys : l # k => SameJob(n, l)
    BY <2>2, <2>3 DEF Framed, SameJob
  <2>. DEFINE added == Body(n, k)
  <2>5. added # None
    BY <1>1, BodyIsSome
  <2>6. /\ Binaries(n, k)' = Binaries(n, k) /\ added' = added
        /\ Publishes(n, k)' = Publishes(n, k) /\ Ready(n, k)' = Ready(n, k)
    BY <2>4, FramedKeeps
  <2>7. p \in Where
    BY DEF Binaries, Where
  <2>8. /\ release'[k].body = release[k].body
        /\ \A q \in Where : release'[k].assets[q] = IF q = p THEN added ELSE release[k].assets[q]
        /\ \A l \in Keys : l # k => SameRelease(l)
    <3>. HIDE DEF added
    <3>. QED  BY <1>1, <1>5, <2>7 DEF Published, SameRelease, added
  <2>9. Assets(k)' = Assets(k) \cup {p} /\ Exists(k)' = Exists(k)
    <3>. HIDE DEF added
    <3>. QED  BY <2>5, <2>7, <2>8 DEF Assets, Exists, Where
  <2>10. \A q \in some : release'[k].assets[q] = added
    <3>1. (\A q \in run[n].done[k] : release[k].assets[q] = added) /\ run[n].done[k] \subseteq Where
      BY <1>1, <1>2 DEF Midpoint, Assets, Where
    <3>. HIDE DEF added
    <3>. QED  BY <2>7, <2>8, <3>1 DEF some
  <2>11. run'[n].job[k] = "upload" /\ run'[n].done[k] = some
    BY <1>1, <2>2, <2>3
  <2>12. /\ some \subseteq Assets(k)' /\ some \subseteq Binaries(n, k)'
         /\ k \notin unlisted' => Assets(k)' = some
    BY <1>1, <1>2, <2>6, <2>9 DEF some, Midpoint
  <2>13. Midpoint(n, k)'
    BY <1>2, <2>6, <2>8, <2>10, <2>11, <2>12 DEF Midpoint
  <2>14. LeftGood(k)'
    BY <2>11 DEF LeftGood, Complete, Busy, Midway
  <2>15. Started' /\ Unspent'
    BY <1>1, <2>3, <2>4, <2>11, Ordered
  <2>16. BackedAt(k)'
    <3>1. Exists(k)'
      BY <1>2, <2>5, <2>9 DEF Midpoint, Exists
    <3>2. k = RS => p \in RsPlatforms
      BY <1>2 DEF Midpoint, Publishes
    <3>. QED  BY <2>9, <3>1, <3>2 DEF Backed, BackedAt
  <2>. QED  BY <1>3, <1>5, <2>3, <2>4, <2>8, <2>13, <2>14, <2>15, <2>16, OnlyAt
<1>. QED  BY <1>4, <1>5 DEF Upload

\* A publisher's command fails.
LEMMA FailsKeeps ==
  ASSUME NEW n \in Runs, NEW k \in Keys, TypeOK, IInv, Fails(n, k)
  PROVE  IInv'
PROOF
<1>. USE DEF IInv
<1>0. run' = [run EXCEPT ![n].job[k] = "done"]
  BY DEF Fails
<1>1. /\ UNCHANGED release /\ broken \subseteq broken' /\ \A l \in Keys : SameRelease(l)
      /\ \A l \in Keys : l # k /\ l \in broken => l \in broken'
      /\ Publishing(n, k) => k \in broken'
      /\ run[n].job[k] # "none"
  BY DEF Fails, Publishing, Midway, SameRelease
<1>2. /\ Others(n) /\ Framed(n) /\ run'[n].job[k] = "done"
      /\ \A l \in Keys : l # k => SameJob(n, l)
  BY <1>0, JobSet, JobNames
<1>3. ~Publishing(n, k)'
  BY <1>2 DEF Publishing, Midway
<1>4. ASSUME NEW m \in Runs, Publishing(m, k)  PROVE Publishing(m, k)' \/ k \in broken'
  BY <1>1, <1>2, <1>4 DEF Publishing, Others
<1>5. LeftGood(k)'
  <2>1. Busy(k) => Busy(k)' \/ k \in broken'
    BY <1>4 DEF Busy, Publishing
  <2>. QED  BY <1>1, <2>1, LeftKept DEF Left
<1>6. BackedAt(k)'
  BY <1>1 DEF Backed, BackedAt, Exists, Assets
<1>7. Started' /\ Unspent'
  BY <1>1, <1>2, Ordered
<1>. QED  BY <1>1, <1>2, <1>3, <1>5, <1>6, <1>7, OnlyAt

\* A matrix ends, and its publisher has what was built to begin with.
LEMMA BuiltKeeps ==
  ASSUME NEW n \in Runs, TypeOK, IInv, Built(n)
  PROVE  IInv'
PROOF
<1>. USE DEF IInv
<1>1. /\ run \in [Runs -> RunType] /\ run[n] \in RunType
      /\ run[n].matrix \subseteq {"build", RS} /\ run[n].legs \subseteq Keys \X Where
      /\ UNCHANGED <<release, broken>> /\ \A k \in Keys : SameRelease(k)
  BY DEF Built, TypeOK, RunType, Matrices, LegSets, SameRelease
<1>2. PICK m \in run[n].matrix, legs \in SUBSET run[n].legs, added \in SUBSET run[n].legs :
        /\ added \subseteq legs
        /\ \A leg \in legs : (leg[1] = RS) = (m = RS)
        /\ run' = [run EXCEPT ![n].matrix = @ \ {m}, ![n].legs = @ \ legs,
                              ![n].built = @ \cup added]
  <2>1. PICK m \in run[n].matrix, lost \in SUBSET run[n].legs :
          run' = [run EXCEPT
            ![n].matrix = @ \ {m},
            ![n].legs = @ \ {leg \in run[n].legs : (leg[1] = RS) = (m = RS)},
            ![n].built = @ \cup (({leg \in run[n].legs : (leg[1] = RS) = (m = RS)} \ lost)
                                   \cap Builds)]
    BY DEF Built
  <2>. DEFINE legs == {leg \in run[n].legs : (leg[1] = RS) = (m = RS)}
              added == (legs \ lost) \cap Builds
  <2>2. /\ legs \in SUBSET run[n].legs /\ added \in SUBSET run[n].legs /\ added \subseteq legs
        /\ \A leg \in legs : (leg[1] = RS) = (m = RS)
    OBVIOUS
  <2>3. run' = [run EXCEPT ![n].matrix = @ \ {m}, ![n].legs = @ \ legs,
                           ![n].built = @ \cup added]
    BY <2>1
  <2>. HIDE DEF legs, added
  <2>. QED  BY <2>2, <2>3
<1>. DEFINE r == [run[n] EXCEPT !.matrix = @ \ {m}, !.legs = @ \ legs, !.built = @ \cup added]
<1>3. run' = [run EXCEPT ![n] = r]
  BY <1>2
<1>4. /\ r.pc = run[n].pc /\ r.own = run[n].own /\ r.heads = run[n].heads
      /\ r.job = run[n].job /\ r.old = run[n].old /\ r.done = run[n].done
      /\ r.matrix = run[n].matrix \ {m} /\ r.built = run[n].built \cup added
  BY <1>1 DEF RunType
<1>. HIDE DEF r
<1>5. Others(n) /\ run'[n] = r
  BY <1>1, <1>3 DEF Others
<1>6. Started' /\ Unspent'
  BY <1>4, <1>5 DEF Started, Unspent, Others
<1>7. \A k \in Keys : Assets(k)' = Assets(k) /\ Exists(k)' = Exists(k)
  BY <1>1 DEF Assets, Exists
<1>8. ASSUME NEW k \in Keys, Publishing(n, k)'  PROVE Midpoint(n, k)'
  <2>1. Midpoint(n, k)
    BY <1>4, <1>5, <1>8 DEF Tracked, Publishing
  <2>2. (IF k = RS THEN RS ELSE "build") # m
    BY <2>1 DEF Midpoint, Ready
  <2>3. \A leg \in added : leg[1] # k
    BY <1>1, <1>2, <2>2
  <2>4. \A p \in Where : << k, p >> \notin added
    BY <2>3
  <2>5. Binaries(n, k)' = Binaries(n, k)
    BY <1>4, <1>5, <2>4 DEF Binaries, Where
  <2>6. Ready(n, k)'
    BY <1>4, <1>5, <2>1 DEF Midpoint, Ready
  <2>7. SameJob(n, k) /\ run'[n].own = run[n].own /\ run'[n].heads = run[n].heads
    BY <1>4, <1>5 DEF SameJob
  <2>. QED  BY <1>1, <2>1, <2>5, <2>6, <2>7, MidpointKept
<1>9. ASSUME NEW l \in Runs, NEW k \in Keys, Publishing(l, k)'  PROVE Midpoint(l, k)'
  <2>1. CASE l # n
    <3>1. run'[l] = run[l]
      BY <1>5, <2>1 DEF Others
    <3>2. Midpoint(l, k)
      BY <1>9, <3>1 DEF Tracked, Publishing
    <3>. QED  BY <1>1, <3>1, <3>2, MidpointStill
  <2>. QED  BY <1>8, <1>9, <2>1
<1>10. ASSUME NEW k \in Keys  PROVE LeftGood(k)'
  <2>1. ASSUME NEW l \in Runs  PROVE Publishing(l, k)' = Publishing(l, k)
    BY <1>4, <1>5 DEF Publishing, Others
  <2>2. Busy(k) => Busy(k)'
    BY <2>1 DEF Busy, Publishing
  <2>. QED  BY <1>1, <2>2, LeftKept DEF Left
<1>. QED  BY <1>6, <1>7, <1>9, <1>10 DEF Backed, BackedAt, Tracked, Left

\* The steps of a run that has no jobs, before and after: it is started, and sees what
\* there is to do.
LEMMA LookingKeeps ==
  ASSUME NEW n \in Runs, TypeOK, IInv,
         (\E force \in BOOLEAN : Dispatch(n, force)) \/ Clone(n) \/ Look(n) \/ Planned(n)
  PROVE  IInv'
PROOF
<1>. USE DEF IInv
<1>1. /\ run \in [Runs -> RunType] /\ run[n] \in RunType /\ variant # 0
      /\ run[n].pc # "work" /\ UNCHANGED <<release, broken, unlisted>>
  BY DEF Dispatch, Clone, Look, Planned, TypeOK
<1>2. \A k \in Keys : run[n].job[k] = "none" /\ run[n].done[k] = {}
  BY <1>1 DEF Started, Unspent
<1>3. /\ Others(n) /\ run'[n].own # 0 /\ run'[n].done = run[n].done
      /\ \A k \in Keys : /\ run'[n].job[k] \in {"none", "wait"}
                         /\ run'[n].job[k] # "none" => run'[n].pc = "work"
  <2>1. ASSUME NEW force \in BOOLEAN, Dispatch(n, force)
        PROVE  Others(n) /\ run'[n].own = variant /\ run'[n].done = run[n].done
                 /\ run'[n].job = run[n].job
    <3>1. PICK left : run' = [run EXCEPT ![n].pc = "clone", ![n].force = force,
                                         ![n].own = variant, ![n].left = left]
      BY <2>1 DEF Dispatch
    <3>. DEFINE r == [run[n] EXCEPT !.pc = "clone", !.force = force, !.own = variant,
                                    !.left = left]
    <3>2. run' = [run EXCEPT ![n] = r]
      BY <3>1
    <3>3. r.own = variant /\ r.done = run[n].done /\ r.job = run[n].job
      BY <1>1 DEF RunType
    <3>. HIDE DEF r
    <3>. QED  BY <1>1, <3>2, <3>3 DEF Others
  <2>2. ASSUME Clone(n)
        PROVE  Others(n) /\ run'[n].own = run[n].own /\ run'[n].done = run[n].done
                 /\ run'[n].job = run[n].job
    <3>. DEFINE r == [run[n] EXCEPT !.pc = "look", !.heads = head]
    <3>1. run' = [run EXCEPT ![n] = r]
      BY <2>2 DEF Clone
    <3>2. r.own = run[n].own /\ r.done = run[n].done /\ r.job = run[n].job
      BY <1>1 DEF RunType
    <3>. HIDE DEF r
    <3>. QED  BY <1>1, <3>1, <3>2 DEF Others
  <2>3. ASSUME Look(n)
        PROVE  Others(n) /\ run'[n].own = run[n].own /\ run'[n].done = run[n].done
                 /\ run'[n].job = run[n].job
    <3>1. PICK plan : run' = [run EXCEPT ![n].left = Tail(@), ![n].plan = plan]
      BY <2>3 DEF Look
    <3>. DEFINE r == [run[n] EXCEPT !.left = Tail(@), !.plan = plan]
    <3>2. run' = [run EXCEPT ![n] = r]
      BY <3>1
    <3>3. r.own = run[n].own /\ r.done = run[n].done /\ r.job = run[n].job
      BY <1>1 DEF RunType
    <3>. HIDE DEF r
    <3>. QED  BY <1>1, <3>2, <3>3 DEF Others
  <2>4. ASSUME Planned(n)
        PROVE  Others(n) /\ run'[n].own = run[n].own /\ run'[n].done = run[n].done
                 /\ run'[n].pc = "work" /\ \A k \in Keys : run'[n].job[k] \in {"none", "wait"}
    <3>. DEFINE plan == Batched(run[n].plan)
                keys == Range(plan) \cup {RS}
                legs == UNION {LegsOf(k) : k \in keys}
                job == [k \in Keys |-> IF k \in keys THEN "wait" ELSE "none"]
                r == [run[n] EXCEPT !.pc = "work", !.plan = plan, !.matrix = {"build", RS},
                                    !.legs = legs, !.job = job]
    <3>1. run' = [run EXCEPT ![n] = r]
      BY <2>4 DEF Planned
    <3>2. \A k \in Keys : job[k] \in {"none", "wait"}
      OBVIOUS
    <3>. HIDE DEF plan, legs, job
    <3>3. r.own = run[n].own /\ r.done = run[n].done /\ r.job = job /\ r.pc = "work"
      BY <1>1 DEF RunType
    <3>. HIDE DEF r
    <3>. QED  BY <1>1, <3>1, <3>2, <3>3 DEF Others
  <2>5. ~(\E force \in BOOLEAN : Dispatch(n, force)) => run[n].own # 0
    BY DEF Clone, Look, Planned, Started
  <2>. QED  BY <1>1, <1>2, <2>1, <2>2, <2>3, <2>4, <2>5
<1>4. Started' /\ Unspent'
  BY <1>2, <1>3 DEF Started, Unspent, Others
<1>5. \A k \in Keys : ~Publishing(n, k)' /\ ~Publishing(n, k)
  BY <1>2, <1>3 DEF Publishing, Midway
<1>. QED  BY <1>1, <1>3, <1>4, <1>5, Quiet

\* A run ends, or is ended, and leaves a mark on what it was in the middle of.
LEMMA StopKeeps ==
  ASSUME NEW n \in Runs, TypeOK, IInv, End(n) \/ Cancel(n)
  PROVE  IInv'
PROOF
<1>. USE DEF IInv
<1>1. /\ run \in [Runs -> RunType] /\ run' = [run EXCEPT ![n] = NoRun]
      /\ UNCHANGED <<release, unlisted>> /\ broken \subseteq broken'
      /\ \A k \in Keys : Publishing(n, k) => k \in broken'
  BY DEF End, Cancel, Over, Publishing, Midway, TypeOK
<1>2. Others(n) /\ run'[n] = NoRun
  BY <1>1 DEF Others
<1>3. NoRun.pc = "off" /\ \A k \in Keys : NoRun.job[k] = "none" /\ NoRun.done[k] = {}
  BY DEF NoRun
<1>4. Started' /\ Unspent'
  BY <1>2, <1>3 DEF Started, Unspent, Others
<1>5. \A k \in Keys : ~Publishing(n, k)'
  BY <1>2, <1>3 DEF Publishing, Midway
<1>. QED  BY <1>1, <1>2, <1>4, <1>5, Quiet

\* Nothing of the invariant is about upstream or this repository.
LEMMA MovesKeep ==
  ASSUME IInv, UNCHANGED <<run, release, broken, unlisted>>
  PROVE  IInv'
PROOF
<1>1. ASSUME NEW k \in Keys  PROVE LeftGood(k)' /\ BackedAt(k)'
  BY LeftKept DEF IInv, Left, Backed, BackedAt, Busy, Exists, Assets, SameRelease
<1>2. ASSUME NEW n \in Runs, NEW k \in Keys, Publishing(n, k)'  PROVE Midpoint(n, k)'
  BY <1>2, MidpointStill DEF IInv, Tracked, Publishing, SameRelease
<1>. QED  BY <1>1, <1>2 DEF IInv, Started, Unspent, Backed, Tracked, Left

\* Every step, while one run at most publishes to a release.
LEMMA IInvStep == TypeOK /\ IInv /\ Alone /\ Alone' /\ [Next]_vars => IInv'
PROOF
<1>. SUFFICES ASSUME TypeOK, IInv, Alone, Alone', [Next]_vars  PROVE IInv'
  OBVIOUS
<1>1. CASE UpstreamMoves \/ VariantMoves \/ UNCHANGED vars
  BY <1>1, MovesKeep DEF UpstreamMoves, VariantMoves, vars
<1>2. ASSUME NEW n \in Runs, NEW force \in BOOLEAN, Dispatch(n, force)  PROVE IInv'
  BY <1>2, LookingKeeps
<1>3. ASSUME NEW n \in Runs, Cancel(n)  PROVE IInv'
  BY <1>3, StopKeeps
<1>4. ASSUME NEW n \in Runs, NEW k \in Keys, Fails(n, k)  PROVE IInv'
  BY <1>4, FailsKeeps
<1>5. ASSUME NEW n \in Runs, NEW k \in Keys, ListFails(n, k)  PROVE IInv'
  BY <1>5, ListFailsKeeps
<1>6. ASSUME NEW n \in Runs, Step(n)  PROVE IInv'
  BY <1>6, LookingKeeps, BuiltKeeps, StopKeeps, BeginKeeps, ListKeeps, DeleteKeeps,
     UploadKeeps DEF Step
<1>. QED  BY <1>1, <1>2, <1>3, <1>4, <1>5, <1>6 DEF Next

\* Where it starts: no releases, no runs.
LEMMA InitIInv == Init => TypeOK /\ IInv
PROOF
<1>. SUFFICES ASSUME Init  PROVE TypeOK /\ IInv
  OBVIOUS
<1>1. /\ \A n \in Runs : run[n] = NoRun
      /\ \A k \in Keys : release[k] = NoRelease
  BY DEF Init
<1>2. NoRun.pc = "off" /\ \A k \in Keys : NoRun.job[k] = "none" /\ NoRun.done[k] = {}
  BY DEF NoRun
<1>3. NoRelease.body = None /\ \A p \in Where : NoRelease.assets[p] = None
  BY DEF NoRelease, Where
<1>4. TypeOK
  <2>1. NoRelease \in [body : Commits, assets : [Where -> Commits]]
    BY DEF NoRelease, Where, Commits, None, From
  <2>2. head \in Heads
    BY DEF Init, Heads
  <2>. QED  BY <2>1, <2>2, NoRunType DEF Init, TypeOK, Published
<1>5. \A k \in Keys : ~Exists(k) /\ Assets(k) = {}
  BY <1>1, <1>3 DEF Exists, Assets, Where
<1>6. \A n \in Runs, k \in Keys : ~Publishing(n, k)
  BY <1>1, <1>2 DEF Publishing, Midway
<1>. QED
  BY <1>1, <1>2, <1>4, <1>5, <1>6
  DEF IInv, Started, Unspent, Backed, BackedAt, Tracked, Left, LeftGood, Complete

-----------------------------------------------------------------------------
\* The pipeline's variables have their types.
THEOREM TypesKept == Spec => []TypeOK
PROOF
<1>1. Init => TypeOK
  BY InitIInv
<1>. QED  BY <1>1, TypeStep, PTL DEF Spec

\* As long as no two runs publish the same release at once, every release whose last
\* publisher got to its end holds something of what its body says, and nothing else
\* unless its old assets could not be listed; the radio server's is whole and of one
\* commit even then.  However many runs there are, and whatever else of them fails, is
\* cancelled or goes on beside another.
THEOREM ReleasesAreWhole == Spec /\ []Alone => [](HoldsWhatItSays /\ RadioServerWhole)
PROOF
<1>1. TypeOK /\ IInv => HoldsWhatItSays /\ RadioServerWhole
  BY DEF IInv, Left, LeftGood, Good, HoldsWhatItSays, RadioServerWhole, Keys
<1>. QED  BY <1>1, InitIInv, TypeStep, IInvStep, PTL DEF Spec

\* With one run at a time nothing has to be assumed of who starts them; a listing that
\* fails still leaves the old assets where they are.
THEOREM OneRunIsEnough ==
  ASSUME \A m, n \in Runs : m = n
  PROVE  Spec => [](HoldsWhatItSays /\ RadioServerWhole)
PROOF
<1>1. Alone
  BY DEF Alone
<1>2. []Alone
  BY <1>1, PTL
<1>. QED  BY <1>2, ReleasesAreWhole, PTL
=============================================================================
