--------------------------- MODULE MailBuildProofs ---------------------------
(***************************************************************************)
(* Proofs about MailBuild, for any templates, slots and edits.  Templates  *)
(* do not touch each other, so the invariant is stated for one of them.    *)
(* Its core: a build that is alone, when the watcher has nothing more to   *)
(* say, has loaded the present source.  Last comes that the work of the    *)
(* build falls with every step.                                            *)
(***************************************************************************)
EXTENDS MailBuild, TLAPS

Quiet(t) == t \notin notified /\ event[t] = "none"

\* A build is alone as long as it is the only one; any other is marked.
AloneIsOnly(t) ==
  \A i \in UnderWay(t) :
    /\ build[t][i].alone => UnderWay(t) = {i}
    /\ ~build[t][i].alone => t \in overlapped

\* Before the script starts, and before the watcher's first look.
Early(t) ==
  /\ ~running => /\ t \notin scanned /\ t \notin missed
                 /\ UnderWay(t) = {} /\ earlier[t] # "orphan"
                 /\ (earlier[t] = "none" => out[t] = Absent)
  /\ t \notin scanned => t \notin overlapped /\ Quiet(t) /\ t \notin known

\* What the watcher is about to report, and knows, is how the source is, unless
\* it has been notified again.
EventMatches(t) ==
  /\ event[t] \in {"change", "add"} =>
       t \in known /\ (t \notin notified => src[t] # Absent)
  /\ event[t] = "unlink" =>
       t \notin known /\ (t \notin notified => src[t] = Absent)

\* A build on its own has loaded the present source, if no change is to be
\* reported, or that one does not load.
LoadedPresent(t) ==
  running /\ Quiet(t) /\ t \notin missed =>
    \A i \in UnderWay(t) :
      build[t][i].alone => src[t] \in Broken \union {build[t][i].content}

\* The output is fresh, if nothing is to be reported and nothing under way.
OutFresh(t) ==
  running /\ Quiet(t) /\ t \notin missed \union overlapped /\ UnderWay(t) = {} =>
    /\ src[t] = Absent => out[t] = Absent \/ earlier[t] = "orphan"
    /\ src[t] \notin Broken \union {Absent} => out[t] = src[t]

\* A template that the watcher does not know has no output but from builds
\* that overlapped its deletion, or from an earlier run.
UnknownIsGone(t) ==
  t \in scanned /\ t \notin known /\ event[t] = "none" /\ t \notin missed =>
    /\ \A i \in UnderWay(t) : ~build[t][i].alone
    /\ t \notin overlapped => out[t] = Absent \/ earlier[t] = "orphan"

\* A build on its own writes an output that it has just emptied.
AloneWritesEmpty(t) ==
  \A i \in UnderWay(t) :
    build[t][i].alone /\ build[t][i].stage = "write" =>
      build[t][i].linked /\ out[t] = Empty

EmptyWritten(t) ==
  out[t] = Empty /\ earlier[t] = "none" =>
    \E i \in UnderWay(t) : build[t][i].stage = "write" /\ build[t][i].linked

TornOverlapped(t) == out[t] = Torn => t \in overlapped \/ earlier[t] # "none"

Good(t) ==
  /\ AloneIsOnly(t)
  /\ Early(t)
  /\ EventMatches(t)
  /\ LoadedPresent(t)
  /\ OutFresh(t)
  /\ UnknownIsGone(t)
  /\ AloneWritesEmpty(t)
  /\ EmptyWritten(t)
  /\ TornOverlapped(t)

IInv ==
  /\ TypeOK
  /\ \A t \in Templates : Good(t)

-------------------------------------------------------------------------------

\* A step that leaves what concerns a template alone keeps it good.
LEMMA Frame ==
  ASSUME NEW t, Good(t),
         running' = running, src'[t] = src[t], out'[t] = out[t],
         earlier'[t] = earlier[t], build'[t] = build[t],
         event'[t] = event[t],
         t \in scanned' <=> t \in scanned, t \in known' <=> t \in known,
         t \in notified' <=> t \in notified,
         t \in overlapped' <=> t \in overlapped,
         t \in missed' <=> t \in missed
  PROVE  Good(t)'
BY DEF Good, AloneIsOnly, Early, EventMatches, LoadedPresent, OutFresh,
       UnknownIsGone, AloneWritesEmpty, EmptyWritten, TornOverlapped, UnderWay,
       Quiet

LEMMA InitIInv == Init => IInv
<1> SUFFICES ASSUME Init PROVE IInv
  OBVIOUS
<1>1. TypeOK
  <2>1. src \in [Templates -> Sources]
    BY DEF Init, Sources
  <2>2. edits \in 0..MaxEdits
    BY BuildAssumption DEF Init
  <2>3. out \in [Templates -> Outputs] /\ earlier \in [Templates -> Origins]
    BY DEF Init, Outputs, Sources, Origins
  <2> QED
    BY <2>1, <2>2, <2>3 DEF Init, TypeOK, Events
<1>2. ASSUME NEW t \in Templates PROVE Good(t)
  <2>1. UnderWay(t) = {}
    BY DEF Init, UnderWay
  <2>2. /\ earlier[t] # "orphan"
        /\ earlier[t] = "none" => out[t] = Absent /\ out[t] # Empty /\ out[t] # Torn
    BY BuildAssumption DEF Init
  <2> QED
    BY <2>1, <2>2 DEF Init, Good, AloneIsOnly, Early, EventMatches,
       LoadedPresent, OutFresh, UnknownIsGone, AloneWritesEmpty, EmptyWritten,
       TornOverlapped, Quiet
<1> QED
  BY <1>1, <1>2 DEF IInv

\* What a build under way is.
LEMMA BuildType ==
  ASSUME TypeOK, NEW t \in Templates, NEW i \in UnderWay(t)
  PROVE  /\ i \in Slots
         /\ build[t][i] \in Builds
         /\ build[t][i] # Idle
BY DEF TypeOK, UnderWay

-------------------------------------------------------------------------------
(* The sources and the watcher. *)

LEMMA SourceStep ==
  ASSUME IInv, NEW t \in Templates, Edit(t) \/ Remove(t)
  PROVE  IInv'
<1>1. TypeOK'
  BY BuildAssumption DEF IInv, TypeOK, Edit, Remove, Changed, Sources
<1>2. ASSUME NEW s \in Templates, s # t PROVE Good(s)'
  BY <1>2, Frame DEF IInv, TypeOK, Edit, Remove, Changed
<1>3. Good(t)'
  <2>1. /\ UNCHANGED <<running, out, earlier, build, scanned, known, event,
                      overlapped>>
        /\ IF t \in scanned THEN t \in notified' /\ missed' = missed
           ELSE /\ notified' = notified
                /\ missed' = IF running THEN missed \union {t} ELSE missed
    BY DEF Edit, Remove, Changed
  <2>2. UnderWay(t)' = UnderWay(t)
    BY <2>1 DEF UnderWay
  <2> QED
    BY <2>1, <2>2 DEF IInv, Good, AloneIsOnly, Early, EventMatches,
       LoadedPresent, OutFresh, UnknownIsGone, AloneWritesEmpty, EmptyWritten,
       TornOverlapped, Quiet
<1> QED
  BY <1>1, <1>2, <1>3 DEF IInv

LEMMA ScanStep ==
  ASSUME IInv, NEW t \in Templates, Scan(t)
  PROVE  IInv'
<1>1. TypeOK'
  BY DEF IInv, TypeOK, Scan
<1>2. ASSUME NEW s \in Templates, s # t PROVE Good(s)'
  BY <1>2, Frame DEF IInv, Scan
<1>3. Good(t)'
  <2>1. UnderWay(t)' = UnderWay(t)
    BY DEF Scan, UnderWay
  <2>2. UnknownIsGone(t)'
    <3> SUFFICES ASSUME src[t] = Absent, t \notin missed
                 PROVE  /\ UnderWay(t) = {}
                        /\ out[t] = Absent \/ earlier[t] = "orphan"
      BY <2>1 DEF Scan, UnknownIsGone
    <3>1. t \notin overlapped /\ Quiet(t) /\ running
      BY DEF Scan, IInv, Good, Early
    <3>2. UnderWay(t) = {}
      BY <3>1, BuildType, BuildAssumption
      DEF IInv, Good, AloneIsOnly, LoadedPresent, Builds
    <3> QED
      BY <3>1, <3>2 DEF IInv, Good, OutFresh
  <2> QED
    BY <2>1, <2>2 DEF IInv, Good, AloneIsOnly, Early, EventMatches,
       LoadedPresent, OutFresh, AloneWritesEmpty, EmptyWritten,
       TornOverlapped, Quiet, Scan
<1> QED
  BY <1>1, <1>2, <1>3 DEF IInv

LEMMA StatStep ==
  ASSUME IInv, NEW t \in Templates, Stat(t)
  PROVE  IInv'
<1>1. TypeOK'
  BY DEF IInv, TypeOK, Stat, Events
<1>2. ASSUME NEW s \in Templates, s # t PROVE Good(s)'
  BY <1>2, Frame DEF IInv, TypeOK, Stat
<1>3. Good(t)'
  <2>1. UnderWay(t)' = UnderWay(t)
    BY DEF Stat, UnderWay
  <2>2. /\ t \in scanned /\ running
        /\ t \notin notified'
        /\ t \in known' <=> src[t] # Absent
    BY DEF Stat, IInv, Good, Early, Quiet
  <2>3. event'[t] = IF src[t] # Absent
                    THEN IF t \in known THEN "change" ELSE "add"
                    ELSE IF t \in known THEN "unlink" ELSE "none"
    BY DEF Stat, IInv, TypeOK
  <2>4. LoadedPresent(t)' /\ OutFresh(t)' /\ UnknownIsGone(t)'
    BY <2>1, <2>2, <2>3 DEF Stat, IInv, Good, LoadedPresent, OutFresh,
       UnknownIsGone, Quiet
  <2>5. EventMatches(t)' /\ Early(t)'
    BY <2>2, <2>3 DEF Stat, IInv, Good, EventMatches, Early
  <2> QED
    BY <2>1, <2>4, <2>5 DEF IInv, Good, AloneIsOnly,
       AloneWritesEmpty, EmptyWritten, TornOverlapped, Stat
<1> QED
  BY <1>1, <1>2, <1>3 DEF IInv

\* Builds that are disturbed remain what they are, but are not alone.
LEMMA DisturbedBuilds ==
  ASSUME TypeOK, NEW t \in Templates
  PROVE  /\ Disturbed(t) \in [Slots -> Builds \union {Idle}]
         /\ \A i \in Slots : Disturbed(t)[i] = Idle <=> build[t][i] = Idle
         /\ \A i \in UnderWay(t) :
              /\ Disturbed(t)[i].alone = FALSE
              /\ Disturbed(t)[i].stage = build[t][i].stage
              /\ Disturbed(t)[i].linked = build[t][i].linked
<1>1. ASSUME NEW i \in UnderWay(t)
      PROVE  /\ [build[t][i] EXCEPT !.alone = FALSE] \in Builds
             /\ [build[t][i] EXCEPT !.alone = FALSE].alone = FALSE
             /\ [build[t][i] EXCEPT !.alone = FALSE].stage = build[t][i].stage
             /\ [build[t][i] EXCEPT !.alone = FALSE].linked = build[t][i].linked
  BY <1>1, BuildType DEF Builds
<1> QED
  BY <1>1, BuildAssumption DEF TypeOK, Disturbed, UnderWay

LEMMA OnChangeStep ==
  ASSUME IInv, NEW t \in Templates, OnChange(t)
  PROVE  IInv'
<1> PICK i \in Slots : Load(t, i)
  BY DEF OnChange
<1>1. CASE /\ src[t] # Absent
           /\ build' = [build EXCEPT ![t] = [Disturbed(t) EXCEPT ![i] = Loading(t)]]
           /\ Overlaps(t)
  <2>0. src[t] \in Nat
    BY <1>1 DEF IInv, TypeOK, Sources
  <2>1. Loading(t) \in Builds /\ Loading(t) # Idle
    <3>1. Loading(t) \in Builds
      BY <2>0 DEF Loading, Builds
    <3> QED
      BY <3>1, BuildAssumption
  <2>2. build'[t] = [Disturbed(t) EXCEPT ![i] = Loading(t)]
    BY <1>1 DEF IInv, TypeOK
  <2>3. build'[t] \in [Slots -> Builds \union {Idle}]
    BY <2>1, <2>2, DisturbedBuilds DEF IInv
  <2>4. TypeOK'
    BY <1>1, <2>2, <2>3 DEF IInv, TypeOK, OnChange, Overlaps, Events
  <2>5. ASSUME NEW s \in Templates, s # t PROVE Good(s)'
    BY <1>1, <2>5, Frame DEF IInv, TypeOK, OnChange, Overlaps
  <2>6. /\ i \notin UnderWay(t)
        /\ UnderWay(t)' = UnderWay(t) \union {i}
        /\ build'[t][i] = Loading(t)
        /\ \A j \in UnderWay(t) :
             /\ build'[t][j].alone = FALSE
             /\ build'[t][j].stage = build[t][j].stage
             /\ build'[t][j].linked = build[t][j].linked
    <3>1. i \notin UnderWay(t)
      BY DEF Load, UnderWay
    <3>2. build'[t][i] = Loading(t)
      BY <2>2, DisturbedBuilds DEF IInv
    <3>3. \A j \in Slots \ {i} : build'[t][j] = Disturbed(t)[j]
      BY <2>2, DisturbedBuilds DEF IInv
    <3>4. /\ TypeOK
          /\ \A j \in Slots : Disturbed(t)[j] = Idle <=> build[t][j] = Idle
          /\ \A j \in UnderWay(t) : /\ Disturbed(t)[j].alone = FALSE
                                   /\ Disturbed(t)[j].stage = build[t][j].stage
                                   /\ Disturbed(t)[j].linked = build[t][j].linked
      BY DisturbedBuilds DEF IInv
    <3>5. \A j \in UnderWay(t) : j \in Slots \ {i}
      BY <3>1 DEF UnderWay
    <3>6. UnderWay(t)' = UnderWay(t) \union {i}
      <4>1. \A j \in Slots : build'[t][j] # Idle <=> build[t][j] # Idle \/ j = i
        BY <2>1, <3>2, <3>3, <3>4
      <4> QED
        BY <4>1 DEF UnderWay
    <3>7. \A j \in UnderWay(t) : build'[t][j] = Disturbed(t)[j]
      BY <3>3, <3>5
    <3> QED
      BY <3>1, <3>2, <3>4, <3>6, <3>7
  <2>7. /\ Loading(t).alone = (UnderWay(t) = {}) /\ Loading(t).content = src[t]
        /\ Loading(t).stage = "render"
        /\ UNCHANGED <<running, src, out, earlier, scanned, known, notified>>
        /\ event'[t] = "none" /\ t \notin missed' /\ t \in known
    BY DEF Loading, OnChange, IInv, TypeOK, Good, EventMatches
  <2>8. AloneIsOnly(t)'
    BY <1>1, <2>6, <2>7 DEF AloneIsOnly, Overlaps
  <2>9. Early(t)' /\ EventMatches(t)'
    BY <1>1, <2>6, <2>7 DEF IInv, Good, Early, EventMatches, Overlaps, Quiet, OnChange
  <2>10. LoadedPresent(t)' /\ OutFresh(t)' /\ UnknownIsGone(t)'
    BY <2>6, <2>7 DEF LoadedPresent, OutFresh, UnknownIsGone
  <2>11. AloneWritesEmpty(t)' /\ EmptyWritten(t)' /\ TornOverlapped(t)'
    BY <1>1, <2>6, <2>7 DEF IInv, Good, AloneWritesEmpty, EmptyWritten,
       TornOverlapped, Overlaps
  <2> QED
    BY <2>4, <2>5, <2>8, <2>9, <2>10, <2>11 DEF IInv, Good
<1>2. CASE src[t] \in Broken \union {Absent} /\ UNCHANGED <<build, overlapped>>
  <2>1. TypeOK'
    BY <1>2 DEF IInv, TypeOK, OnChange, Events
  <2>2. ASSUME NEW s \in Templates, s # t PROVE Good(s)'
    BY <1>2, <2>2, Frame DEF IInv, TypeOK, OnChange
  <2>3. UnderWay(t)' = UnderWay(t)
    BY <1>2 DEF UnderWay
  <2>4. /\ UNCHANGED <<running, src, out, earlier, scanned, known, notified>>
        /\ event'[t] = "none" /\ t \notin missed' /\ t \in known
        /\ t \notin notified => src[t] # Absent
    BY DEF OnChange, IInv, TypeOK, Good, EventMatches
  <2>5. LoadedPresent(t)' /\ OutFresh(t)'
    BY <1>2, <2>3, <2>4 DEF LoadedPresent, OutFresh, Quiet
  <2> QED
    BY <1>2, <2>1, <2>2, <2>3, <2>4, <2>5
    DEF IInv, Good, AloneIsOnly, Early, EventMatches, UnknownIsGone,
        AloneWritesEmpty, EmptyWritten, TornOverlapped, Quiet, OnChange
<1> QED
  BY <1>1, <1>2 DEF Load

LEMMA OnUnlinkStep ==
  ASSUME IInv, NEW t \in Templates, OnUnlink(t)
  PROVE  IInv'
<1> DEFINE after == [i \in Slots |-> IF build[t][i] = Idle THEN Idle
                                    ELSE [Disturbed(t)[i] EXCEPT !.linked = FALSE]]
<1>1. ASSUME NEW i \in UnderWay(t)
      PROVE  after[i] \in Builds /\ ~after[i].alone /\ ~after[i].linked
  <2>1. i \in Slots /\ build[t][i] # Idle
    BY DEF UnderWay
  <2>2. Disturbed(t)[i] \in Builds /\ ~Disturbed(t)[i].alone
    <3>1. Disturbed(t)[i] \in Builds \union {Idle} /\ Disturbed(t)[i] # Idle
      BY <2>1, DisturbedBuilds DEF IInv
    <3> QED
      BY <1>1, <3>1, DisturbedBuilds DEF IInv
  <2>3. [Disturbed(t)[i] EXCEPT !.linked = FALSE] \in Builds
    BY <2>2 DEF Builds
  <2>4. after[i] = [Disturbed(t)[i] EXCEPT !.linked = FALSE]
    BY <2>1
  <2> QED
    BY <2>2, <2>3, <2>4 DEF Builds
<1>2. after \in [Slots -> Builds \union {Idle}]
  BY <1>1 DEF UnderWay
<1>3. build'[t] = after
  BY DEF OnUnlink, IInv, TypeOK
<1>4. TypeOK'
  BY <1>2, <1>3
  DEF IInv, TypeOK, OnUnlink, Overlaps, Outputs, Sources, Origins, Events
<1>5. ASSUME NEW s \in Templates, s # t PROVE Good(s)'
  BY <1>5, Frame DEF IInv, TypeOK, OnUnlink, Overlaps
<1>6. UnderWay(t)' = UnderWay(t)
  BY <1>1, <1>3, BuildAssumption DEF UnderWay
<1>7. /\ UNCHANGED <<running, src, scanned, known, notified>>
      /\ event'[t] = "none" /\ out'[t] = Absent /\ t \notin missed'
      /\ earlier'[t] = "none"
      /\ t \notin known /\ (t \notin notified => src[t] = Absent)
      /\ t \in scanned
      /\ UnderWay(t) # {} => t \in overlapped'
      /\ t \in overlapped => t \in overlapped'
  BY DEF OnUnlink, IInv, TypeOK, Good, EventMatches, Early, Overlaps, Quiet
<1>8. AloneIsOnly(t)' /\ Early(t)' /\ EventMatches(t)' /\ AloneWritesEmpty(t)'
  BY <1>1, <1>3, <1>6, <1>7
  DEF IInv, Good, AloneIsOnly, Early, EventMatches, AloneWritesEmpty
<1>9. LoadedPresent(t)' /\ OutFresh(t)' /\ UnknownIsGone(t)'
  BY <1>1, <1>3, <1>6, <1>7, BuildAssumption
  DEF LoadedPresent, OutFresh, UnknownIsGone, Quiet
<1>10. EmptyWritten(t)' /\ TornOverlapped(t)'
  BY <1>7, BuildAssumption DEF EmptyWritten, TornOverlapped
<1> QED
  BY <1>4, <1>5, <1>8, <1>9, <1>10 DEF IInv, Good

-------------------------------------------------------------------------------
(* The builds. *)

\* A step of one build leaves the others of its template alone.
LEMMA OneBuild ==
  ASSUME TypeOK, NEW t \in Templates, NEW i \in UnderWay(t),
         NEW b \in Builds \union {Idle},
         build' = [build EXCEPT ![t][i] = b]
  PROVE  /\ build' \in [Templates -> [Slots -> Builds \union {Idle}]]
         /\ build'[t][i] = b
         /\ \A j \in Slots \ {i} : build'[t][j] = build[t][j]
         /\ \A s \in Templates \ {t} : build'[s] = build[s]
         /\ b = Idle => UnderWay(t)' = UnderWay(t) \ {i}
         /\ b # Idle => UnderWay(t)' = UnderWay(t)
BY DEF TypeOK, UnderWay

LEMMA RenderStep ==
  ASSUME IInv, NEW t \in Templates, NEW i \in Slots, Render(t, i)
  PROVE  IInv'
<1>1. i \in UnderWay(t) /\ build[t][i] \in Builds
  BY BuildType DEF Render, UnderWay, IInv
<1> DEFINE b == IF build[t][i].content \in Broken THEN Idle
                ELSE [build[t][i] EXCEPT !.stage = "open"]
<1>2. b \in Builds \union {Idle}
  BY <1>1 DEF Builds
<1>3. build' = [build EXCEPT ![t][i] = b]
  BY <1>1 DEF Render, IInv, TypeOK
<1>4. b # Idle => /\ b.stage = "open" /\ b.alone = build[t][i].alone
                  /\ b.content = build[t][i].content
                  /\ b.linked = build[t][i].linked
  BY <1>1 DEF Builds
<1>5. b = Idle => build[t][i].content \in Broken
  BY <1>1, BuildAssumption DEF Builds
<1>6. UNCHANGED <<running, edits, src, out, earlier, scanned, known, notified,
                  event, overlapped, missed>>
  BY DEF Render
<1> HIDE DEF b
<1>7. /\ build' \in [Templates -> [Slots -> Builds \union {Idle}]]
      /\ build'[t][i] = b
      /\ \A j \in Slots \ {i} : build'[t][j] = build[t][j]
      /\ \A s \in Templates \ {t} : build'[s] = build[s]
      /\ b = Idle => UnderWay(t)' = UnderWay(t) \ {i}
      /\ b # Idle => UnderWay(t)' = UnderWay(t)
  BY <1>1, <1>2, <1>3, OneBuild DEF IInv
<1>8. TypeOK'
  BY <1>6, <1>7 DEF IInv, TypeOK
<1>9. ASSUME NEW s \in Templates, s # t PROVE Good(s)'
  BY <1>6, <1>7, <1>9, Frame DEF IInv
<1>10. \A j \in UnderWay(t)' :
         /\ j \in Slots /\ j \in UnderWay(t)
         /\ build'[t][j].alone = build[t][j].alone
         /\ build'[t][j].content = build[t][j].content
         /\ build'[t][j].linked = build[t][j].linked
         /\ build'[t][j].stage = IF j = i THEN "open" ELSE build[t][j].stage
  BY <1>1, <1>4, <1>7 DEF UnderWay
<1>11. AloneIsOnly(t)'
  BY <1>6, <1>7, <1>10 DEF IInv, Good, AloneIsOnly
<1>12. Early(t)' /\ EventMatches(t)' /\ LoadedPresent(t)' /\ UnknownIsGone(t)'
  BY <1>6, <1>7, <1>10
  DEF IInv, Good, Early, EventMatches, LoadedPresent, UnknownIsGone, Quiet
<1>13. OutFresh(t)'
  <2> SUFFICES ASSUME UnderWay(t)' = {}, b = Idle,
                      running, Quiet(t), t \notin missed \union overlapped
               PROVE  src[t] \in Broken
    BY <1>1, <1>6, <1>7, BuildAssumption DEF OutFresh, Quiet
  <2>1. build[t][i].alone
    BY <1>1 DEF IInv, Good, AloneIsOnly
  <2> QED
    BY <1>1, <1>5, <2>1 DEF IInv, Good, LoadedPresent
<1>14. AloneWritesEmpty(t)' /\ TornOverlapped(t)'
  BY <1>6, <1>10 DEF IInv, Good, AloneWritesEmpty, TornOverlapped
<1>15. EmptyWritten(t)'
  <2> SUFFICES ASSUME out[t] = Empty, earlier[t] = "none" PROVE EmptyWritten(t)'
    BY <1>6 DEF EmptyWritten
  <2>1. PICK j \in UnderWay(t) : build[t][j].stage = "write" /\ build[t][j].linked
    BY DEF IInv, Good, EmptyWritten
  <2>2. j # i
    BY <2>1 DEF Render
  <2> QED
    BY <1>7, <2>1, <2>2 DEF EmptyWritten, UnderWay
<1> QED
  BY <1>8, <1>9, <1>11, <1>12, <1>13, <1>14, <1>15 DEF IInv, Good

LEMMA OpenStep ==
  ASSUME IInv, NEW t \in Templates, NEW i \in Slots, Open(t, i)
  PROVE  IInv'
<1>1. i \in UnderWay(t) /\ build[t][i] \in Builds
  BY BuildType DEF Open, UnderWay, IInv
<1> DEFINE b == [build[t][i] EXCEPT !.stage = "write", !.linked = TRUE]
<1>2. b \in Builds /\ b # Idle
  BY <1>1, BuildAssumption DEF Builds
<1>3. build' = [build EXCEPT ![t][i] = b]
  BY <1>1 DEF Open, IInv, TypeOK
<1>4. /\ b.stage = "write" /\ b.linked /\ b.alone = build[t][i].alone
      /\ b.content = build[t][i].content
  BY <1>1 DEF Builds
<1>5. /\ UNCHANGED <<running, edits, src, scanned, known, notified, event, missed>>
      /\ out' = [out EXCEPT ![t] = Empty]
      /\ earlier' = [earlier EXCEPT ![t] = "none"]
      /\ overlapped' = IF build[t][i].alone THEN overlapped \ {t} ELSE overlapped
  BY DEF Open
<1> HIDE DEF b
<1>6. /\ build' \in [Templates -> [Slots -> Builds \union {Idle}]]
      /\ build'[t][i] = b
      /\ \A j \in Slots \ {i} : build'[t][j] = build[t][j]
      /\ \A s \in Templates \ {t} : build'[s] = build[s]
      /\ UnderWay(t)' = UnderWay(t)
  BY <1>1, <1>2, <1>3, OneBuild DEF IInv
<1>7. TypeOK'
  BY <1>5, <1>6 DEF IInv, TypeOK, Outputs, Origins
<1>8. ASSUME NEW s \in Templates, s # t PROVE Good(s)'
  BY <1>5, <1>6, <1>8, Frame DEF IInv, TypeOK
<1>9. out'[t] = Empty
  BY <1>5 DEF IInv, TypeOK
<1>10. \A j \in UnderWay(t) :
         /\ j \in Slots
         /\ build'[t][j].alone = build[t][j].alone
         /\ build'[t][j].content = build[t][j].content
         /\ j # i => build'[t][j] = build[t][j]
  BY <1>4, <1>6 DEF UnderWay
<1>11. build[t][i].alone => UnderWay(t) = {i}
  BY <1>1 DEF IInv, Good, AloneIsOnly
<1>12. ~build[t][i].alone => t \in overlapped
  BY <1>1 DEF IInv, Good, AloneIsOnly
<1>13. AloneIsOnly(t)'
  BY <1>5, <1>6, <1>10, <1>11 DEF IInv, Good, AloneIsOnly
<1>14. Early(t)' /\ EventMatches(t)' /\ LoadedPresent(t)' /\ OutFresh(t)'
  BY <1>1, <1>5, <1>6, <1>10
  DEF IInv, Good, Early, EventMatches, LoadedPresent, OutFresh, Quiet
<1>15. UnknownIsGone(t)'
  BY <1>1, <1>5, <1>6, <1>10, <1>12 DEF IInv, Good, UnknownIsGone
<1>16. AloneWritesEmpty(t)'
  BY <1>4, <1>6, <1>9, <1>10, <1>11 DEF IInv, Good, AloneIsOnly, AloneWritesEmpty
<1>17. EmptyWritten(t)' /\ TornOverlapped(t)'
  BY <1>1, <1>4, <1>6, <1>9, BuildAssumption DEF EmptyWritten, TornOverlapped
<1> QED
  BY <1>7, <1>8, <1>13, <1>14, <1>15, <1>16, <1>17 DEF IInv, Good

LEMMA WriteStep ==
  ASSUME IInv, NEW t \in Templates, NEW i \in Slots, Write(t, i)
  PROVE  IInv'
<1>1. i \in UnderWay(t) /\ build[t][i] \in Builds
  BY BuildType DEF Write, UnderWay, IInv
<1>2. build[t][i].content \in Nat
  BY <1>1 DEF Builds
<1>3. UNCHANGED <<running, edits, src, earlier, scanned, known, notified, event,
                  overlapped, missed>>
  BY DEF Write
<1>4. /\ build' \in [Templates -> [Slots -> Builds \union {Idle}]]
      /\ build'[t][i] = Idle
      /\ \A j \in Slots \ {i} : build'[t][j] = build[t][j]
      /\ \A s \in Templates \ {t} : build'[s] = build[s]
      /\ UnderWay(t)' = UnderWay(t) \ {i}
  BY <1>1, OneBuild DEF IInv, Write
<1>5. /\ out' \in [Templates -> Outputs]
      /\ \A s \in Templates \ {t} : out'[s] = out[s]
      /\ IF build[t][i].linked
         THEN \/ out'[t] = build[t][i].content
              \/ out'[t] = Torn /\ out[t] # Empty
         ELSE out'[t] = out[t]
  BY <1>2, BuildAssumption DEF IInv, TypeOK, Write, Outputs, Sources
<1>6. TypeOK'
  BY <1>3, <1>4, <1>5 DEF IInv, TypeOK
<1>7. ASSUME NEW s \in Templates, s # t PROVE Good(s)'
  BY <1>3, <1>4, <1>5, <1>7, Frame DEF IInv
<1>8. \A j \in UnderWay(t)' :
        /\ j \in UnderWay(t)
        /\ build'[t][j] = build[t][j]
  BY <1>4 DEF UnderWay
<1>9. CASE build[t][i].alone
  <2>1. UnderWay(t) = {i} /\ UnderWay(t)' = {}
    BY <1>1, <1>4, <1>9 DEF IInv, Good, AloneIsOnly
  <2>2. build[t][i].linked /\ out[t] = Empty
    BY <1>1, <1>9 DEF IInv, Good, AloneWritesEmpty, Write
  <2>3. out'[t] = build[t][i].content
    BY <1>5, <2>2
  <2>4. /\ t \in scanned /\ t \notin known /\ event[t] = "none" => t \in missed
        /\ running
    BY <1>1, <1>9 DEF IInv, Good, UnknownIsGone, Early
  <2>5. OutFresh(t)'
    BY <1>1, <1>2, <1>3, <1>9, <2>3, BuildAssumption
    DEF IInv, Good, LoadedPresent, OutFresh, Quiet
  <2>6. AloneIsOnly(t)' /\ Early(t)' /\ EventMatches(t)' /\ LoadedPresent(t)'
    BY <1>3, <2>1, <2>4
    DEF IInv, Good, AloneIsOnly, Early, EventMatches, LoadedPresent, Quiet
  <2>7. UnknownIsGone(t)' /\ AloneWritesEmpty(t)'
    BY <1>3, <2>1, <2>4 DEF UnknownIsGone, AloneWritesEmpty
  <2>8. EmptyWritten(t)' /\ TornOverlapped(t)'
    BY <1>2, <2>3, BuildAssumption DEF EmptyWritten, TornOverlapped
  <2> QED
    BY <1>6, <1>7, <2>5, <2>6, <2>7, <2>8 DEF IInv, Good
<1>10. CASE ~build[t][i].alone
  <2>1. t \in overlapped
    BY <1>1, <1>10 DEF IInv, Good, AloneIsOnly
  <2>2. running
    BY <1>1 DEF IInv, Good, Early
  <2>3. AloneIsOnly(t)' /\ Early(t)' /\ EventMatches(t)' /\ LoadedPresent(t)'
    BY <1>1, <1>3, <1>4, <1>8, <1>10, <2>1, <2>2
    DEF IInv, Good, AloneIsOnly, Early, EventMatches, LoadedPresent, Quiet
  <2>4. OutFresh(t)' /\ UnknownIsGone(t)' /\ TornOverlapped(t)'
    BY <1>3, <1>8, <2>1
    DEF IInv, Good, OutFresh, UnknownIsGone, TornOverlapped
  <2>5. AloneWritesEmpty(t)'
    BY <1>1, <1>8, <1>10 DEF IInv, Good, AloneWritesEmpty, AloneIsOnly
  <2>6. EmptyWritten(t)'
    <3> SUFFICES ASSUME out'[t] = Empty, earlier[t] = "none"
                 PROVE  EmptyWritten(t)'
      BY <1>3 DEF EmptyWritten
    <3>1. ~build[t][i].linked /\ out[t] = Empty
      BY <1>2, <1>5, BuildAssumption
    <3>2. PICK j \in UnderWay(t) : build[t][j].stage = "write" /\ build[t][j].linked
      BY <3>1 DEF IInv, Good, EmptyWritten
    <3>3. j \in UnderWay(t)'
      BY <1>4, <3>1, <3>2
    <3> QED
      BY <1>8, <3>2, <3>3 DEF EmptyWritten
  <2> QED
    BY <1>6, <1>7, <2>3, <2>4, <2>5, <2>6 DEF IInv, Good
<1> QED
  BY <1>9, <1>10

-------------------------------------------------------------------------------

LEMMA StartStep ==
  ASSUME IInv, Start
  PROVE  IInv'
<1>1. PICK i \in Slots, loads \in SUBSET {t \in Templates : src[t] # Absent} :
        /\ \A t \in Templates \ loads : src[t] \in Broken \union {Absent}
        /\ build' = [t \in Templates |->
                       IF t \in loads THEN [build[t] EXCEPT ![i] = Loading(t)]
                       ELSE build[t]]
  BY DEF Start
<1>2. ~running /\ running' = TRUE
      /\ UNCHANGED <<edits, src, out, scanned, known, notified, event,
                      overlapped, missed>>
  BY DEF Start
<1>3. ASSUME NEW t \in Templates
      PROVE  /\ t \notin scanned /\ t \notin missed /\ t \notin overlapped
             /\ UnderWay(t) = {}
             /\ earlier'[t] = "none" => out[t] = Absent
             /\ src[t] = Absent => out[t] = Absent \/ earlier'[t] = "orphan"
             /\ Quiet(t) /\ t \notin known
  <2>1. earlier'[t] = IF src[t] = Absent /\ earlier[t] = "output" THEN "orphan"
                      ELSE earlier[t]
    BY DEF Start
  <2>2. earlier[t] \in Origins
    BY DEF IInv, TypeOK
  <2> QED
    BY <1>2, <2>1, <2>2 DEF IInv, Good, Early, Origins
<1>4. ASSUME NEW t \in loads
      PROVE  /\ Loading(t) \in Builds /\ Loading(t) # Idle
             /\ Loading(t).alone /\ Loading(t).content = src[t]
             /\ Loading(t).stage = "render"
  <2>1. t \in Templates /\ src[t] \in Nat
    BY DEF IInv, TypeOK, Sources
  <2>2. Loading(t) \in Builds
    BY <2>1, <1>3 DEF Loading, Builds
  <2> QED
    BY <2>1, <2>2, <1>3, BuildAssumption DEF Loading
<1>5. TypeOK'
  <2>1. earlier' \in [Templates -> Origins]
    BY DEF Start, IInv, TypeOK, Origins
  <2> QED
    BY <1>1, <1>2, <1>4, <2>1 DEF IInv, TypeOK
<1>6. ASSUME NEW t \in Templates PROVE Good(t)'
  <2>1. CASE t \in loads
    <3>1. UnderWay(t)' = {i} /\ build'[t][i] = Loading(t)
      BY <1>1, <1>3, <1>4, <2>1 DEF UnderWay, IInv, TypeOK
    <3> QED
      BY <1>2, <1>3, <1>4, <2>1, <3>1, BuildAssumption
      DEF Good, AloneIsOnly, Early, EventMatches, LoadedPresent, OutFresh,
          UnknownIsGone, AloneWritesEmpty, EmptyWritten, TornOverlapped, Quiet
  <2>2. CASE t \notin loads
    <3>1. UnderWay(t)' = {}
      BY <1>1, <1>3, <2>2 DEF UnderWay
    <3>2. src[t] \in Broken \union {Absent}
      BY <1>1, <2>2
    <3> QED
      BY <1>2, <1>3, <3>1, <3>2, BuildAssumption
      DEF Good, AloneIsOnly, Early, EventMatches, LoadedPresent, OutFresh,
          UnknownIsGone, AloneWritesEmpty, EmptyWritten, TornOverlapped, Quiet
  <2> QED
    BY <2>1, <2>2
<1> QED
  BY <1>5, <1>6 DEF IInv

LEMMA NextIInv == IInv /\ [Next]_vars => IInv'
<1> SUFFICES ASSUME IInv, [Next]_vars PROVE IInv'
  OBVIOUS
<1>1. CASE Start
  BY <1>1, StartStep
<1>2. ASSUME NEW t \in Templates, Edit(t) \/ Remove(t) PROVE IInv'
  BY <1>2, SourceStep
<1>3. ASSUME NEW t \in Templates, Watcher(t) PROVE IInv'
  BY <1>3, ScanStep, StatStep, OnChangeStep, OnUnlinkStep DEF Watcher
<1>4. ASSUME NEW t \in Templates, Builder(t) PROVE IInv'
  BY <1>4, RenderStep, OpenStep, WriteStep DEF Builder
<1>5. CASE UNCHANGED vars
  <2>1. TypeOK'
    BY <1>5 DEF vars, IInv, TypeOK
  <2>2. ASSUME NEW t \in Templates PROVE Good(t)'
    BY <1>5, Frame DEF vars, IInv
  <2> QED
    BY <2>1, <2>2 DEF IInv
<1> QED
  BY <1>1, <1>2, <1>3, <1>4, <1>5 DEF Next

LEMMA Invariance == Spec => []IInv
BY InitIInv, NextIInv, PTL DEF Spec

-------------------------------------------------------------------------------
(* The theorems. *)

\* The variables have their types: only what exists is loaded.
THEOREM TypeCorrect == Spec => []TypeOK
<1>1. IInv => TypeOK
  BY DEF IInv
<1> QED
  BY <1>1, Invariance, PTL

\* Whatever an earlier run left, at rest an output is that of the newest source,
\* but for overlaps, early edits and sources that do not load; and without a
\* source there is one at most if it had none already when the run began.
THEOREM FreshTheorem == Spec => []FreshAtRest
<1>1. IInv => FreshAtRest
  <2> SUFFICES ASSUME IInv, NEW t \in Templates, Settled(t),
                      t \notin overlapped \union missed
               PROVE  /\ src[t] = Absent =>
                           out[t] = Absent \/ earlier[t] = "orphan"
                      /\ src[t] \notin Broken \union {Absent} => out[t] = src[t]
    BY DEF FreshAtRest
  <2>1. running
    BY DEF IInv, Good, Early, Settled
  <2> QED
    BY <2>1 DEF IInv, Good, OutFresh, Settled, Quiet
<1> QED
  BY <1>1, Invariance, PTL

\* Only builds that overlapped leave the remains of two outputs, those of this
\* run or of the one that left the output.
THEOREM TornTheorem == Spec => []TornNeedsOverlap
<1>1. IInv => TornNeedsOverlap
  BY DEF IInv, Good, TornOverlapped, TornNeedsOverlap
<1> QED
  BY <1>1, Invariance, PTL

\* An output of this run is empty only while the build that emptied it is going
\* to write.
THEOREM EmptyTheorem == Spec => []EmptyIsBeingWritten
<1>1. IInv => EmptyIsBeingWritten
  BY DEF IInv, Good, EmptyWritten, EmptyIsBeingWritten
<1> QED
  BY <1>1, Invariance, PTL

-------------------------------------------------------------------------------
(* The build comes to an end: the safety half of ComesToRest. *)

One(b) == IF b THEN 1 ELSE 0

\* What the watcher still has to do for t, at most: a look, and a report after
\* a notification; and every edit that is still to come may notify it again.
ToReport(t) ==
  One(~running) + One(t \notin scanned) + 2 * One(t \in notified)
    + One(event[t] # "none") + 3 * (MaxEdits - edits)

\* The awaits that a build has before it.
ToBuild(b) ==
  IF b = Idle THEN 0
  ELSE CASE b.stage = "render" -> 3
         [] b.stage = "open"   -> 2
         [] b.stage = "write"  -> 1

\* Every step leaves the watcher less to do for a template, or else leaves its
\* builds as they are but for some that go on: no build leads to a report, and
\* no builds begin but at the start and for a report.
BuildsEnd ==
  [][\A t \in Templates :
       \/ ToReport(t)' < ToReport(t)
       \/ /\ ToReport(t)' = ToReport(t)
          /\ \A i \in Slots : \/ build'[t][i] = build[t][i]
                              \/ ToBuild(build'[t][i]) < ToBuild(build[t][i])]_vars

LEMMA ReportTypes ==
  ASSUME TypeOK, NEW t \in Templates
  PROVE  ToReport(t) \in Nat /\ edits \in Nat /\ MaxEdits \in Nat
BY BuildAssumption DEF TypeOK, ToReport, One

\* The steps of the script, of edits and of the watcher.
LEMMA StartReports ==
  ASSUME TypeOK, Start, NEW t \in Templates
  PROVE  ToReport(t)' < ToReport(t)
BY BuildAssumption DEF TypeOK, Start, ToReport, One

LEMMA EditReports ==
  ASSUME TypeOK, NEW s \in Templates, Edit(s) \/ Remove(s), NEW t \in Templates
  PROVE  ToReport(t)' < ToReport(t)
BY BuildAssumption DEF TypeOK, Edit, Remove, Changed, ToReport, One

LEMMA WatcherReports ==
  ASSUME TypeOK, NEW t \in Templates, Watcher(t)
  PROVE  ToReport(t)' < ToReport(t)
<1>1. MaxEdits \in Nat /\ edits \in Nat
  BY ReportTypes
<1>2. CASE Scan(t)
  BY <1>1, <1>2 DEF Scan, ToReport, One
<1>3. CASE Stat(t)
  BY <1>1, <1>3 DEF Stat, ToReport, One, TypeOK
<1>4. CASE OnChange(t)
  BY <1>1, <1>4 DEF OnChange, ToReport, One, TypeOK
<1>5. CASE OnUnlink(t)
  BY <1>1, <1>5 DEF OnUnlink, ToReport, One, TypeOK
<1> QED
  BY <1>2, <1>3, <1>4, <1>5 DEF Watcher

\* The watcher leaves the other templates alone.
LEMMA WatcherElsewhere ==
  ASSUME TypeOK, NEW s \in Templates, Watcher(s), NEW t \in Templates, t # s
  PROVE  ToReport(t)' = ToReport(t) /\ build'[t] = build[t]
BY DEF TypeOK, Watcher, Scan, Stat, OnChange, OnUnlink, Load, ToReport

\* A build goes from await to await.
LEMMA BuilderAdvances ==
  ASSUME TypeOK, NEW s \in Templates, Builder(s), NEW t \in Templates
  PROVE  /\ ToReport(t)' = ToReport(t)
         /\ \A i \in Slots : \/ build'[t][i] = build[t][i]
                             \/ ToBuild(build'[t][i]) < ToBuild(build[t][i])
<1>1. PICK j \in Slots : Render(s, j) \/ Open(s, j) \/ Write(s, j)
  BY DEF Builder
<1>2. ToReport(t)' = ToReport(t)
  BY <1>1 DEF Render, Open, Write, ToReport
<1>3. /\ build \in [Templates -> [Slots -> Builds \union {Idle}]]
      /\ build[s][j] # Idle /\ build[s][j] \in Builds
  BY <1>1 DEF TypeOK, Render, Open, Write
<1>4. ASSUME NEW i \in Slots, t # s \/ i # j
      PROVE  build'[t][i] = build[t][i]
  BY <1>1, <1>3, <1>4 DEF Render, Open, Write
<1>5. ToBuild(build'[s][j]) < ToBuild(build[s][j])
  <2>1. ToBuild(Idle) = 0 /\ \A b \in Builds :
          /\ b.stage = "render" => ToBuild(b) = 3
          /\ b.stage = "open" => ToBuild(b) = 2
          /\ b.stage = "write" => ToBuild(b) = 1
    BY BuildAssumption DEF ToBuild
  <2>2. CASE build'[s][j] = Idle
    <3>1. build[s][j].stage \in {"render", "open", "write"}
      BY <1>1 DEF Render, Open, Write
    <3> QED
      BY <1>3, <2>1, <2>2, <3>1
  <2>3. CASE /\ build'[s][j] = [build[s][j] EXCEPT !.stage = "open"]
             /\ build[s][j].stage = "render"
    <3>1. build'[s][j] \in Builds /\ build'[s][j].stage = "open"
      BY <1>3, <2>3 DEF Builds
    <3>2. ToBuild(build'[s][j]) = 2
      BY <2>1, <3>1
    <3>3. ToBuild(build[s][j]) = 3
      BY <1>3, <2>1, <2>3
    <3> QED
      BY <3>2, <3>3
  <2>4. CASE /\ build'[s][j] = [build[s][j] EXCEPT !.stage = "write", !.linked = TRUE]
             /\ build[s][j].stage = "open"
    <3>1. build'[s][j] \in Builds /\ build'[s][j].stage = "write"
      BY <1>3, <2>4 DEF Builds
    <3>2. ToBuild(build'[s][j]) = 1
      BY <2>1, <3>1
    <3>3. ToBuild(build[s][j]) = 2
      BY <1>3, <2>1, <2>4
    <3> QED
      BY <3>2, <3>3
  <2>5. CASE Render(s, j)
    BY <1>3, <2>2, <2>3, <2>5 DEF Render
  <2>6. CASE Open(s, j)
    BY <1>3, <2>4, <2>6 DEF Open
  <2>7. CASE Write(s, j)
    BY <1>3, <2>2, <2>7 DEF Write
  <2> QED
    BY <1>1, <2>5, <2>6, <2>7
<1> QED
  BY <1>2, <1>4, <1>5

\* However edits, reports and builds overlap, a template's pending work only
\* falls, so that only edits without end could keep the build from its rest.
THEOREM BuildsEndTheorem == Spec => BuildsEnd
<1> DEFINE Less(t) ==
      \/ ToReport(t)' < ToReport(t)
      \/ /\ ToReport(t)' = ToReport(t)
         /\ \A i \in Slots : \/ build'[t][i] = build[t][i]
                             \/ ToBuild(build'[t][i]) < ToBuild(build[t][i])
<1>1. ASSUME TypeOK, Next, NEW t \in Templates
      PROVE  Less(t)
  <2>1. CASE Start
    BY <1>1, <2>1, StartReports
  <2>2. ASSUME NEW s \in Templates, Edit(s) \/ Remove(s)
        PROVE  Less(t)
    BY <1>1, <2>2, EditReports
  <2>3. ASSUME NEW s \in Templates, Watcher(s)
        PROVE  Less(t)
    BY <1>1, <2>3, WatcherReports, WatcherElsewhere
  <2>4. ASSUME NEW s \in Templates, Builder(s)
        PROVE  Less(t)
    BY <1>1, <2>4, BuilderAdvances
  <2> QED
    BY <1>1, <2>1, <2>2, <2>3, <2>4 DEF Next
<1>2. TypeOK /\ [Next]_vars => [\A t \in Templates : Less(t)]_vars
  BY <1>1
<1> QED
  BY TypeCorrect, <1>2, PTL DEF Spec, BuildsEnd

===============================================================================
