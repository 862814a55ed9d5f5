---------------------------- MODULE FileExporter ----------------------------
(***************************************************************************)
(* The exporter of insights into JSON files                                *)
(* (agent_debugger_sdk/core/exporters/file.py), with exports of several    *)
(* threads or processes into one directory.  An export writes the file of  *)
(* its session, then reads and rewrites the index of failure patterns,     *)
(* then that of entities, each through a temporary file of a fixed name.   *)
(*                                                                         *)
(* A name leads to a file, and an open file stays what it is when it is    *)
(* renamed or another is renamed over it.  A file is what it holds: the    *)
(* exports that are counted in it, in readable JSON or not.                *)
(***************************************************************************)
EXTENDS Naturals

CONSTANT Export      \* exports, all of one session; a process may end in the middle

WriteOrder == <<"session", "patterns", "entities">>
File == {"session", "patterns", "entities"}
First == "first"     \* what is there before: an index of _init_index_files, or an older session file
NoFile == "no file"
ASSUME ExportAssumption == Export \cap {First, NoFile} = {}

VARIABLES
  named,    \* name -> the file of that name: the export that made it, or First
  temp,     \* name -> the temporary file beside it, or NoFile
  text,     \* name -> file -> what it holds
  at,       \* export -> which file of the plan it is at; Len(WriteOrder) + 1: none
  step,     \* export -> "read", "open", "dump", "replace"; or "error", "dead"
  base,     \* export -> the exports counted in the index it has read
  handle,   \* export -> the file it writes to
  shared    \* history: names that two exports worked on at once

exporterVars == <<named, temp, text, at, step, base, handle, shared>>

Empty == [json |-> "empty", counts |-> {}]
Whole(counts) == [json |-> "whole", counts |-> counts]
Torn == [json |-> "torn", counts |-> {}]

ExporterInit ==
  /\ named = [f \in File |-> First] /\ temp = [f \in File |-> NoFile]
  /\ text = [f \in File |-> [x \in Export \cup {First} |-> IF x = First THEN Whole({}) ELSE Empty]]
  /\ at = [e \in Export |-> 1] /\ step = [e \in Export |-> "open"]
  /\ base = [e \in Export |-> {}] /\ handle = [e \in Export |-> NoFile]
  /\ shared = {}

\* e begins with f while another export is not through with it.
Share(e, f) ==
  shared' = IF \E o \in Export \ {e} :
                 /\ at[o] <= 3 /\ WriteOrder[at[o]] = f
                 /\ step[o] \in {"dump", "replace"} \/ (step[o] = "open" /\ f # "session")
              THEN shared \cup {f} ELSE shared

At(e, f, s) == at[e] <= 3 /\ f = WriteOrder[at[e]] /\ step[e] = s
Do(e, s) == step' = [step EXCEPT ![e] = s]

\* An index that is not JSON raises, which export makes an ExportError.
ReadIndex(e, f) ==
  /\ At(e, f, "read")
  /\ Share(e, f)
  /\ IF text[f][named[f]].json = "whole"
       THEN base' = [base EXCEPT ![e] = text[f][named[f]].counts] /\ Do(e, "open")
       ELSE UNCHANGED base /\ Do(e, "error")
  /\ UNCHANGED <<named, temp, text, at, handle>>

\* Mutant: the file itself is opened.
OpenTemp_InPlace(e, f) ==
  /\ At(e, f, "open")
  /\ (IF f = "session" THEN Share(e, f) ELSE UNCHANGED shared)
  /\ handle' = [handle EXCEPT ![e] = named[f]]
  /\ temp' = [temp EXCEPT ![f] = named[f]]
  /\ text' = [text EXCEPT ![f][named[f]] = Empty]
  /\ Do(e, "dump")
  /\ UNCHANGED <<named, at, base>>

\* open(temp_path, "w"): a file that is there, whoever's, is emptied.
OpenTemp(e, f) ==
  /\ At(e, f, "open")
  /\ (IF f = "session" THEN Share(e, f) ELSE UNCHANGED shared)
  /\ LET x == IF temp[f] = NoFile THEN e ELSE temp[f]
     IN  /\ handle' = [handle EXCEPT ![e] = x]
         /\ temp' = [temp EXCEPT ![f] = x]
         /\ text' = [text EXCEPT ![f][x] = Empty]
  /\ Do(e, "dump")
  /\ UNCHANGED <<named, at, base>>

\* json.dump, at the start of the file: over a longer text it leaves garbage.
Dump(e, f) ==
  /\ At(e, f, "dump")
  /\ \E t \in {Whole(base[e] \cup {e}), Torn} :
       /\ t = Torn => text[f][handle[e]].json # "empty"
       /\ text' = [text EXCEPT ![f][handle[e]] = t]
  /\ Do(e, "replace")
  /\ UNCHANGED <<named, temp, at, base, handle, shared>>

\* temp_path.replace(path): what is at that name now; nothing there raises.
ReplaceFile(e, f) ==
  /\ At(e, f, "replace")
  /\ IF temp[f] = NoFile
       THEN Do(e, "error") /\ UNCHANGED <<named, temp, at>>
       ELSE /\ named' = [named EXCEPT ![f] = temp[f]]
            /\ temp' = [temp EXCEPT ![f] = NoFile]
            /\ at' = [at EXCEPT ![e] = @ + 1]
            /\ Do(e, "read")
  /\ base' = [base EXCEPT ![e] = {}] /\ handle' = [handle EXCEPT ![e] = NoFile]
  /\ UNCHANGED <<text, shared>>

\* The process ends; of what it was writing, a part may have been written.
Die(e, f) ==
  /\ \E s \in {"read", "open", "dump", "replace"} : At(e, f, s)
  /\ text' \in IF step[e] = "dump" THEN {text, [text EXCEPT ![f][handle[e]] = Torn]} ELSE {text}
  /\ Do(e, "dead")
  /\ UNCHANGED <<named, temp, at, base, handle, shared>>

ExporterNext ==
  \E e \in Export, f \in File :
    ReadIndex(e, f) \/ OpenTemp(e, f) \/ Dump(e, f) \/ ReplaceFile(e, f) \/ Die(e, f)

ExporterSpec == ExporterInit /\ [][ExporterNext]_exporterVars

-----------------------------------------------------------------------------
(* Property *)

Place(f) == CHOOSE n \in 1..3 : WriteOrder[n] = f

\* "Write data to a JSON file atomically": wherever exporters end and whatever
\* they leave behind, a file that no two of them worked on at once is readable
\* and counts each export that has replaced it, once, and no other.
AloneIsAtomic ==
  \A f \in File \ shared :
    LET done == {e \in Export : at[e] > Place(f)}
    IN  /\ text[f][named[f]].json = "whole"
        /\ f # "session" => text[f][named[f]].counts = done
=============================================================================
