------------------------------ MODULE MailBuild ------------------------------
(***************************************************************************)
(* The build of the mail templates in watch mode, pnpm email:watch.  One   *)
(* process loads and renders every template at the start, and again        *)
(* whenever the watcher reports it.  Nothing serializes the builds of one  *)
(* template: each renders, opens its output, which empties the file, and   *)
(* writes it, and the watcher may have a template built or its output      *)
(* deleted in between.                                                     *)
(*                                                                         *)
(* The content of a source is the number of the edit that made it.         *)
(***************************************************************************)
EXTENDS Naturals

CONSTANTS
  Templates,  \* the names of templates
  Slots,      \* the places for builds of one template, a bound on overlap
  Broken,     \* the contents that do not load, or do not render
  MaxEdits,   \* how often the sources are edited, a bound
  Absent,     \* no file
  Old,        \* an output of an earlier run of the script
  Empty,      \* an output that has been opened and not written
  Torn,       \* the remains of two outputs
  Idle        \* no build

\* linked: its output has a name; alone: no other build of the template began,
\* and no deletion of its output was handled, while this one was under way.
Builds == [content : Nat, stage : {"render", "open", "write"},
           linked : BOOLEAN, alone : BOOLEAN]

ASSUME BuildAssumption ==
  /\ Broken \subseteq Nat
  /\ MaxEdits \in Nat
  /\ \A x \in {Absent, Old, Empty, Torn} : x \notin Nat
  /\ Absent \notin {Old, Empty, Torn} /\ Empty \notin {Old, Torn} /\ Old # Torn
  /\ Idle \notin Builds

VARIABLES
  running,     \* whether the script has started
  edits,       \* how often the sources have been edited
  src,         \* src[t], the content of the source of t
  out,         \* out[t], the content of its output
  earlier,     \* earlier[t], whether that is from before this run
  build,       \* build[t][i], a build of t under way
  scanned,     \* the templates that the watcher has looked at once
  known,       \* the templates that the watcher knows to exist
  notified,    \* the templates whose directory entry has changed since
  event,       \* event[t], what the watcher is about to report of t
  overlapped,  \* the templates whose last builds overlapped
  missed       \* the templates that changed before they were scanned

vars == <<running, edits, src, out, earlier, build, scanned, known, notified,
          event, overlapped, missed>>

Sources == Nat \union {Absent}
Outputs == Sources \union {Old, Empty, Torn}
Events == {"none", "change", "add", "unlink"}

\* No output of an earlier run; one; and one that had lost its source when this
\* run began.
Origins == {"none", "output", "orphan"}

TypeOK ==
  /\ running \in BOOLEAN
  /\ edits \in 0..MaxEdits
  /\ src \in [Templates -> Sources]
  /\ out \in [Templates -> Outputs]
  /\ earlier \in [Templates -> Origins]
  /\ build \in [Templates -> [Slots -> Builds \union {Idle}]]
  /\ scanned \subseteq Templates
  /\ known \subseteq Templates
  /\ notified \subseteq Templates
  /\ event \in [Templates -> Events]
  /\ overlapped \subseteq Templates
  /\ missed \subseteq Templates

\* The directory of the outputs is kept: an earlier run has left there what it
\* wrote, also if it was killed meanwhile or its builds overlapped.
Init ==
  /\ running = FALSE
  /\ edits = 0
  /\ src \in [Templates -> {0, Absent}]
  /\ out \in [Templates -> {Absent, Old, Empty, Torn}]
  /\ earlier = [t \in Templates |-> IF out[t] = Absent THEN "none" ELSE "output"]
  /\ build = [t \in Templates |-> [i \in Slots |-> Idle]]
  /\ scanned = {}
  /\ known = {}
  /\ notified = {}
  /\ event = [t \in Templates |-> "none"]
  /\ overlapped = {}
  /\ missed = {}

-------------------------------------------------------------------------------

UnderWay(t) == {i \in Slots : build[t][i] # Idle}

\* The builds of t under way are disturbed, as nothing keeps them apart.
Disturbed(t) ==
  [i \in Slots |-> IF build[t][i] = Idle THEN Idle
                   ELSE [build[t][i] EXCEPT !.alone = FALSE]]

Overlaps(t) ==
  overlapped' = IF UnderWay(t) = {} THEN overlapped ELSE overlapped \union {t}

\* The part of build() up to the await of render: the module is loaded afresh.
Loading(t) == [content |-> src[t], stage |-> "render", linked |-> FALSE,
               alone |-> UnderWay(t) = {}]

\* Faulty variant: a source that is gone is loaded like any other.
LoadUnchecked(t, i) ==
  /\ build[t][i] = Idle
  /\ build' = [build EXCEPT ![t] = [Disturbed(t) EXCEPT ![i] = Loading(t)]]
  /\ Overlaps(t)

\* A template is loaded and put to slot i, or it does not load.
Load(t, i) ==
  /\ build[t][i] = Idle
  /\ \/ /\ src[t] # Absent
        /\ build' = [build EXCEPT ![t] = [Disturbed(t) EXCEPT ![i] = Loading(t)]]
        /\ Overlaps(t)
     \/ /\ src[t] \in Broken \union {Absent}
        /\ UNCHANGED <<build, overlapped>>

\* The script up to its first await: every template that there is, is loaded;
\* the watcher is made.
Start ==
  /\ ~running
  /\ running' = TRUE
  /\ \E i \in Slots :
       \E loads \in SUBSET {t \in Templates : src[t] # Absent} :
         /\ \A t \in Templates \ loads : src[t] \in Broken \union {Absent}
         /\ build' = [t \in Templates |->
                        IF t \in loads THEN [build[t] EXCEPT ![i] = Loading(t)]
                        ELSE build[t]]
  /\ earlier' = [t \in Templates |->
                   IF src[t] = Absent /\ earlier[t] = "output" THEN "orphan"
                   ELSE earlier[t]]
  /\ UNCHANGED <<edits, src, out, scanned, known, notified, event, overlapped,
                 missed>>

-------------------------------------------------------------------------------
(* The sources and the watcher. *)

\* The file system tells the watcher only once it has looked.
Changed(t) ==
  /\ edits < MaxEdits
  /\ edits' = edits + 1
  /\ IF t \in scanned
     THEN /\ notified' = notified \union {t}
          /\ UNCHANGED missed
     ELSE /\ missed' = IF running THEN missed \union {t} ELSE missed
          /\ UNCHANGED notified

Edit(t) ==
  /\ Changed(t)
  /\ src' = [src EXCEPT ![t] = edits + 1]
  /\ UNCHANGED <<running, out, earlier, build, scanned, known, event, overlapped>>

Remove(t) ==
  /\ src[t] # Absent
  /\ Changed(t)
  /\ src' = [src EXCEPT ![t] = Absent]
  /\ UNCHANGED <<running, out, earlier, build, scanned, known, event, overlapped>>

\* The first look, of which ignoreInitial reports nothing.
Scan(t) ==
  /\ running /\ t \notin scanned
  /\ scanned' = scanned \union {t}
  /\ known' = IF src[t] # Absent THEN known \union {t} ELSE known
  /\ UNCHANGED <<running, edits, src, out, earlier, build, notified, event,
                 overlapped, missed>>

\* A later look: what it finds decides which event is reported.
Stat(t) ==
  /\ t \in notified /\ event[t] = "none"
  /\ notified' = notified \ {t}
  /\ known' = IF src[t] # Absent THEN known \union {t} ELSE known \ {t}
  /\ event' = [event EXCEPT ![t] =
                 IF src[t] # Absent
                 THEN IF t \in known THEN "change" ELSE "add"
                 ELSE IF t \in known THEN "unlink" ELSE "none"]
  /\ UNCHANGED <<running, edits, src, out, earlier, build, scanned, overlapped,
                 missed>>

\* Faulty variant: no handler for "add".
OnChangeOnly(t) ==
  /\ event[t] \in {"change", "add"}
  /\ \E i \in Slots :
       IF event[t] = "change" THEN Load(t, i) ELSE UNCHANGED <<build, overlapped>>
  /\ event' = [event EXCEPT ![t] = "none"]
  /\ missed' = missed \ {t}
  /\ UNCHANGED <<running, edits, src, out, earlier, scanned, known, notified>>

\* on('change') and on('add').
OnChange(t) ==
  /\ event[t] \in {"change", "add"}
  /\ \E i \in Slots : Load(t, i)
  /\ event' = [event EXCEPT ![t] = "none"]
  /\ missed' = missed \ {t}
  /\ UNCHANGED <<running, edits, src, out, earlier, scanned, known, notified>>

\* Faulty variant: the output is emptied instead of deleted.
OnUnlinkEmpties(t) ==
  /\ event[t] = "unlink"
  /\ event' = [event EXCEPT ![t] = "none"]
  /\ out' = [out EXCEPT ![t] = IF @ = Absent THEN Absent ELSE Empty]
  /\ earlier' = [earlier EXCEPT ![t] = "none"]
  /\ Overlaps(t)
  /\ missed' = missed \ {t}
  /\ UNCHANGED <<running, edits, src, build, scanned, known, notified>>

\* on('unlink'): the output is deleted, if there is one; a build that has it
\* open writes into a file without a name.
OnUnlink(t) ==
  /\ event[t] = "unlink"
  /\ event' = [event EXCEPT ![t] = "none"]
  /\ out' = [out EXCEPT ![t] = Absent]
  /\ earlier' = [earlier EXCEPT ![t] = "none"]
  /\ build' = [build EXCEPT ![t] =
                 [i \in Slots |-> IF build[t][i] = Idle THEN Idle
                                  ELSE [Disturbed(t)[i] EXCEPT !.linked = FALSE]]]
  /\ Overlaps(t)
  /\ missed' = missed \ {t}
  /\ UNCHANGED <<running, edits, src, scanned, known, notified>>

-------------------------------------------------------------------------------
(* The builds under way. *)

\* Faulty variant: an error of render is caught by nobody.
RenderUncaught(t, i) ==
  /\ build[t][i] # Idle /\ build[t][i].stage = "render"
  /\ build[t][i].content \notin Broken
  /\ build' = [build EXCEPT ![t][i].stage = "open"]
  /\ UNCHANGED <<running, edits, src, out, earlier, scanned, known, notified, event,
                 overlapped, missed>>

\* render resolves, and the stream is made; or it rejects, which is caught.
Render(t, i) ==
  /\ build[t][i] # Idle /\ build[t][i].stage = "render"
  /\ build' = IF build[t][i].content \in Broken
              THEN [build EXCEPT ![t][i] = Idle]
              ELSE [build EXCEPT ![t][i].stage = "open"]
  /\ UNCHANGED <<running, edits, src, out, earlier, scanned, known, notified, event,
                 overlapped, missed>>

\* Faulty variant: the output is opened without emptying it.
OpenKeeps(t, i) ==
  /\ build[t][i] # Idle /\ build[t][i].stage = "open"
  /\ build' = [build EXCEPT ![t][i].stage = "write", ![t][i].linked = TRUE]
  /\ out' = [out EXCEPT ![t] = IF @ = Absent THEN Empty ELSE @]
  /\ earlier' = [earlier EXCEPT ![t] = "none"]
  /\ overlapped' = IF build[t][i].alone THEN overlapped \ {t} ELSE overlapped
  /\ UNCHANGED <<running, edits, src, scanned, known, notified, event, missed>>

\* The stream opens the output, which makes or empties it.
Open(t, i) ==
  /\ build[t][i] # Idle /\ build[t][i].stage = "open"
  /\ build' = [build EXCEPT ![t][i].stage = "write", ![t][i].linked = TRUE]
  /\ out' = [out EXCEPT ![t] = Empty]
  /\ earlier' = [earlier EXCEPT ![t] = "none"]
  /\ overlapped' = IF build[t][i].alone THEN overlapped \ {t} ELSE overlapped
  /\ UNCHANGED <<running, edits, src, scanned, known, notified, event, missed>>

\* The stream writes from the start of the file: over what another build has
\* written since, of which the end is left if it was longer.
Write(t, i) ==
  /\ build[t][i] # Idle /\ build[t][i].stage = "write"
  /\ build' = [build EXCEPT ![t][i] = Idle]
  /\ IF build[t][i].linked
     THEN \E left \in {build[t][i].content, Torn} :
            /\ left = Torn => out[t] \notin {Empty, build[t][i].content}
            /\ out' = [out EXCEPT ![t] = left]
     ELSE UNCHANGED out
  /\ UNCHANGED <<running, edits, src, earlier, scanned, known, notified, event,
                 overlapped, missed>>

-------------------------------------------------------------------------------

Builder(t) == \E i \in Slots : Render(t, i) \/ Open(t, i) \/ Write(t, i)
Watcher(t) == Scan(t) \/ Stat(t) \/ OnChange(t) \/ OnUnlink(t)

Next ==
  \/ Start
  \/ \E t \in Templates : Edit(t) \/ Remove(t) \/ Watcher(t) \/ Builder(t)

Fairness ==
  \A t \in Templates :
    /\ WF_vars(Scan(t)) /\ WF_vars(Stat(t))
    /\ WF_vars(OnChange(t)) /\ WF_vars(OnUnlink(t))
    /\ \A i \in Slots :
         WF_vars(Render(t, i)) /\ WF_vars(Open(t, i)) /\ WF_vars(Write(t, i))

Spec == Init /\ [][Next]_vars /\ Fairness

-------------------------------------------------------------------------------
(* Properties. *)

\* The watcher has nothing to report of t, and no build of t is under way.
Settled(t) ==
  /\ t \in scanned /\ t \notin notified /\ event[t] = "none"
  /\ UnderWay(t) = {}

\* Once builds and watcher have settled, an output is that of the newest
\* source, whatever an earlier run had left there, and there is none without a
\* source; except when the last builds overlapped, each other or the deletion,
\* or the source changed between the first build and the watcher's first look,
\* and except for what an earlier run had left of a source that was gone before
\* this one began, and never came back.
FreshAtRest ==
  \A t \in Templates :
    Settled(t) /\ t \notin overlapped \union missed =>
      /\ src[t] = Absent => out[t] = Absent \/ earlier[t] = "orphan"
      /\ src[t] \notin Broken \union {Absent} => out[t] = src[t]

\* The remains of two outputs are left only by builds that overlapped, in this
\* run or an earlier one, and the next build on its own replaces them.
TornNeedsOverlap ==
  \A t \in Templates : out[t] = Torn => t \in overlapped \/ earlier[t] # "none"

\* However builds and deletions overlap, a run leaves no output empty: a build
\* that is going to write it is under way.
EmptyIsBeingWritten ==
  \A t \in Templates :
    out[t] = Empty /\ earlier[t] = "none" =>
      \E i \in UnderWay(t) : build[t][i].stage = "write" /\ build[t][i].linked

\* Builds and watcher come to rest when the sources are left alone, also when a
\* source does not load or render.
ComesToRest == running ~> \A t \in Templates : Settled(t)

===============================================================================
