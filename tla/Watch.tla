------------------------------- MODULE Watch -------------------------------
(***************************************************************************)
(* The file source (source/file): a goroutine loads a rules file into the  *)
(* engine, registers a watcher on its directory and reloads on the events  *)
(* of the file, while an editor saves it, in place (the file is empty for  *)
(* a while) or by renaming a new one over it.  The file system and the     *)
(* watcher library are external: an event is queued for every change of    *)
(* the directory made after the registration.                              *)
(***************************************************************************)
EXTENDS Specs

CONSTANTS
  Docs,       \* documents saved: [ok, specs], ok = FALSE when the YAML is malformed
  First,      \* documents found when Watch starts
  Mode,       \* lint mode of WithLint
  MaxSaves,   \* bound: saves by the editor
  MayLose     \* the kernel's queue may overflow

VARIABLES
  disk,       \* the content of the file
  saving,     \* documents whose in-place save has emptied the file and not filled it yet
  saves,
  pc,         \* where Watch is
  first,      \* its reload is the one before the loop
  got,        \* what os.ReadFile returned
  events,     \* w.Events
  errors,     \* w.Errors holds an error
  cancelled,  \* ctx is done
  rules,      \* the engine's rules: the specs they were built from
  touched,    \* history: the file changed after the registration, no event of it lost
  texts       \* history: what the file has contained

vars == <<disk, saving, saves, pc, first, got, events, errors, cancelled, rules, touched, texts>>
file == <<disk, saving, saves, texts>>

Empty == [ok |-> TRUE, specs |-> << >>]

Init ==
  /\ disk \in First /\ saving = << >> /\ saves = 0 /\ texts = {disk}
  /\ pc = "read" /\ first = TRUE /\ got = Empty
  /\ events = << >> /\ errors = FALSE /\ cancelled = FALSE
  /\ rules = << >> /\ touched = FALSE

-----------------------------------------------------------------------------
(* Parse: malformed, refused by the gate, a name twice or a spec that does *)
(* not build: no rules at all.                                             *)
Duplicate(specs) ==
  \E i, j \in DOMAIN specs : i # j /\ specs[i].name = specs[j].name /\ specs[i].name # ""

\* rules before the first that does not build are kept
ParseUpTo(doc) ==
  [ok |-> doc.ok /\ ~LintGate(Mode, doc.specs).reject /\ ~Duplicate(doc.specs),
   rules |-> SelectSeq(doc.specs, LAMBDA s : Builds(s))]

Parse(doc) ==
  [ok |-> /\ doc.ok
          /\ ~LintGate(Mode, doc.specs).reject
          /\ ~Duplicate(doc.specs)
          /\ \A i \in DOMAIN doc.specs : Builds(doc.specs[i]),
   rules |-> doc.specs]

(* reload reads the file ...  *)
readFile ==
  /\ pc = "read"
  /\ got' = disk /\ pc' = "swap"
  /\ UNCHANGED <<file, first, events, errors, cancelled, rules, touched>>

(* ... and swaps the rules, or keeps the previous.  The error of the first *)
(* reload is Watch's own.                                                  *)
reload ==
  /\ pc = "swap"
  /\ rules' = IF Parse(got).ok THEN Parse(got).rules ELSE rules
  /\ pc' = IF ~first THEN "loop" ELSE IF Parse(got).ok THEN "add" ELSE "stopped"
  /\ first' = FALSE /\ got' = Empty
  /\ UNCHANGED <<file, events, errors, cancelled, touched>>

addWatch ==
  /\ pc = "add"
  /\ pc' \in {"loop", "stopped"}      \* stopped: NewWatcher or Add failed
  /\ UNCHANGED <<file, first, got, events, errors, cancelled, rules, touched>>

\* a file that is renamed into place is not one that is written
HandleWritesOnly ==
  /\ pc = "loop" /\ events # << >>
  /\ events' = Tail(events)
  /\ pc' = IF Head(events).name = "rules" /\ Head(events).op = "write" THEN "read" ELSE "loop"
  /\ UNCHANGED <<file, first, got, errors, cancelled, rules, touched>>

handleFileEvent ==
  /\ pc = "loop" /\ events # << >>
  /\ events' = Tail(events)
  /\ pc' = IF Head(events).name = "rules" /\ Head(events).op \in {"write", "create"} THEN "read" ELSE "loop"
  /\ UNCHANGED <<file, first, got, errors, cancelled, rules, touched>>

watcherError ==
  /\ pc = "loop" /\ errors
  /\ errors' = FALSE
  /\ UNCHANGED <<file, pc, first, got, events, cancelled, rules, touched>>

\* break leaves the select, not the loop
DoneBreaksSelect ==
  /\ pc = "loop" /\ cancelled
  /\ UNCHANGED vars

done ==
  /\ pc = "loop" /\ cancelled
  /\ pc' = "stopped"
  /\ UNCHANGED <<file, first, got, events, errors, cancelled, rules, touched>>

cancel ==
  /\ ~cancelled /\ cancelled' = TRUE
  /\ UNCHANGED <<file, pc, first, got, events, errors, rules, touched>>

-----------------------------------------------------------------------------
(* The directory changes; the event is queued, dropped when nobody watches *)
(* yet, or lost, with an error instead.                                    *)
Changed(name, op) ==
  \/ /\ pc \in {"add"} \/ first \/ pc = "stopped"
     /\ UNCHANGED <<events, errors, touched>>
  \/ /\ ~first /\ pc \in {"loop", "read", "swap"}
     /\ events' = Append(events, [name |-> name, op |-> op])
     /\ touched' = (touched \/ name = "rules")
     /\ UNCHANGED errors
  \/ /\ MayLose /\ ~first /\ pc \in {"loop", "read", "swap"}
     /\ errors' = TRUE /\ touched' = FALSE
     /\ UNCHANGED events

Elsewhere == <<pc, first, got, cancelled, rules>>
Content(doc) == disk' = doc /\ texts' = texts \cup {doc}

truncate(doc) ==
  /\ saves < MaxSaves /\ saving = << >>
  /\ saves' = saves + 1 /\ saving' = <<doc>>
  /\ Content(Empty) /\ Changed("rules", "write")
  /\ UNCHANGED Elsewhere

write ==
  /\ saving # << >>
  /\ saving' = << >>
  /\ Content(saving[1]) /\ Changed("rules", "write")
  /\ UNCHANGED <<saves, Elsewhere>>

rename(doc) ==
  /\ saves < MaxSaves /\ saving = << >>
  /\ saves' = saves + 1
  /\ Content(doc) /\ Changed("rules", "create")
  /\ UNCHANGED <<saving, Elsewhere>>

(* Events that are not about the content: another file, a change of mode. *)
noise ==
  /\ saves < MaxSaves /\ saves' = saves + 1
  /\ Changed("other", "write") \/ Changed("other", "chmod")
  /\ UNCHANGED <<disk, saving, texts, Elsewhere>>

watcher == readFile \/ reload \/ addWatch \/ handleFileEvent \/ watcherError \/ done
Next ==
  \/ watcher \/ cancel \/ write \/ noise
  \/ \E doc \in Docs : truncate(doc) \/ rename(doc)

(* The watching goroutine is scheduled, a save that has begun ends. *)
Spec == Init /\ [][Next]_vars /\ WF_vars(watcher) /\ WF_vars(write) /\ SF_vars(done)

-----------------------------------------------------------------------------
(* "A parse error keeps the previous rules": the engine's rules are those   *)
(* of one whole text the file has held, all of which parsed; never a part.  *)
RulesOfOneText ==
  rules # << >> => \E doc \in texts : Parse(doc).ok /\ rules = doc.specs

(* Once Watch is in its loop, a rules file that stays as it is ends up in   *)
(* the engine, however it was saved and however many events were handled    *)
(* or pending: unless it does not parse, or an event was lost.              *)
SavedIsLoaded ==
  \A doc \in Docs :
    (touched /\ disk = doc /\ saving = << >>)
      ~> (rules = doc.specs \/ disk # doc \/ ~Parse(doc).ok \/ ~touched \/ cancelled)

(* "Watch blocks until ctx is canceled", and no longer. *)
CancelStops == cancelled ~> pc = "stopped"

(* "watch the file and hot-reload on change": the rules of the file Watch   *)
(* has begun to watch become the engine's.                                 *)
ChangeIsLoaded ==
  \A doc \in Docs :
    (pc = "loop" /\ disk = doc /\ saving = << >>)
      ~> (rules = doc.specs \/ disk # doc \/ ~Parse(doc).ok \/ cancelled)

=============================================================================
