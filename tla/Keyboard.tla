------------------------------ MODULE Keyboard ------------------------------
(***************************************************************************)
(* A keyboard map on its way from the file to the text: KmapFile reads the *)
(* file (load_input of src/gui.cpp, load_kmap of src/kmap.c), Converter    *)
(* translates the keys with what was read.                                 *)
(*                                                                         *)
(* A file is read within one call of the setup or the constructor, so no   *)
(* key is handled before the end of the file; after that, each reload      *)
(* gives the map to some of the inputs, the others have none.              *)
(***************************************************************************)
EXTENDS Converter

CONSTANTS Files,       \* the files an author writes, sequences of lines
          Typed,       \* those that a user types with, and the keys other than
                       \* characters that are pressed: "shift", "left", "right"
          EndsInLine,  \* whether the last line has a newline, a set of BOOLEAN
          BufferSize   \* characters read at a time, 1024 in the code

ASSUME KeyboardAssumption == /\ DOMAIN Typed \subseteq Files
                             /\ EndsInLine \subseteq BOOLEAN
                             /\ BufferSize \in Nat \ {0}

VARIABLES file, text, pos, buf, state, before, after, loaded, offs, parts, multi

fileVars == <<file, text, pos, buf, state, before, after, loaded, offs, parts, multi>>

File == INSTANCE KmapFile

(* A file is a text. *)
ASSUME TextAssumption == \A f \in Files : \A ends \in EndsInLine : File!Text(f, ends) \in Seq(Nat)

KeyboardInit == Init /\ File!Init

Load == File!Next /\ UNCHANGED vars

Type == /\ state = "closed" /\ file \in DOMAIN Typed
        /\ \/ Edit
           \/ "shift" \in Typed[file] /\ SilentKey
           \/ \E key \in Typed[file] : ArrowKey(key)
           \/ reload({[lines |-> loaded, offset |-> offs], NoMap})
        /\ UNCHANGED fileVars

KeyboardNext == Load \/ Type

KeyboardSpec == KeyboardInit /\ [][KeyboardNext]_<<vars, fileVars>>
                /\ WF_<<vars, fileVars>>(Load)

-----------------------------------------------------------------------------
(* KmapFile: wherever the buffer ends, each line is taken once and in order and
   means what its author wrote, and the parts begin where they were begun
   (doc/HOWTO-keymap.txt:10-45, kmap.c:57-250). *)
LoadedIsMeant == File!LoadedIsMeant

(* KmapFile: load_kmap comes to the end of the file (kmap.c:213-250). *)
Loaded == File!Loaded
=============================================================================
