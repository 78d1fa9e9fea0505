------------------------------ MODULE Keyfile ------------------------------
(***************************************************************************)
(* src/keyfile.c: a configuration file of sections and keys, the document   *)
(* it is loaded into, and the save that writes the document back.           *)
(*                                                                         *)
(* A text is a sequence of pieces, "sq" and "dq" standing for the quotes.   *)
(* Section names are taken modulo case, which find_keysection ignores; keys *)
(* are spelled as they are.  Of a line only what load_keyfile tells apart   *)
(* is kept.  A process may die at any point, and the disk may fill up; what *)
(* was printed by then is on disk up to some line, and the line after that  *)
(* may be there in part, without its end.                                   *)
(***************************************************************************)
EXTENDS Integers, Sequences, SequencesExt

CONSTANTS SectionNames, KeyNames,
          Short,       \* the names of one character
          Lowered,     \* what cpr_lower makes of the key names that are not in lower case
          Texts,       \* values given to keys
          LineMax,     \* pieces of text that fit into linebuf
          FirstFiles,  \* files there may be before the first load
          MaxSections, MaxEdits,   \* bounds: sections, and calls that change a document
          NONE         \* no file, no document, no such section or key

VARIABLES doc,      \* the document in memory, a sequence of sections, or NONE
          file,     \* the lines on disk, or NONE
          saving,   \* "idle", "removed" or "writing"
          printed,  \* how far save_keyfile has come: sections, and keys of the last
          target,   \* the document the file is meant to hold
          complete, \* the last save printed and closed its file
          edits     \* calls that changed a document

keyVars == <<doc, file, saving, printed, target, complete, edits>>

Root    == "*"
Nothing == [section |-> 0, key |-> 0]
Section(id, keys) == [id |-> id, keys |-> keys]
Key(id, value)    == [id |-> id, value |-> value]

Name  == STRING \cup {Root}
Piece == STRING \cup {"sq", "dq", "torn"}

(* A line: its kind, the name in it, the text after the '=', whether blanks *)
(* come before it, and whether it ends in a newline.                        *)
Line(kind, id, text) == [kind |-> kind, id |-> id, text |-> text, indented |-> FALSE, nl |-> TRUE]
FileLine == [kind : {"section", "key", "other"}, id : Name, text : Seq(Piece),
             indented : BOOLEAN, nl : BOOLEAN]
Torn(line) == [line EXCEPT !.text = <<"torn">>, !.nl = FALSE]

ASSUME KeyAssumption == /\ Root \in Short
                        /\ SectionNames \subseteq Name /\ KeyNames \subseteq Name
                        /\ Texts \subseteq Seq(Piece)
                        /\ FirstFiles \subseteq Seq(FileLine) \cup {NONE}
                        /\ LineMax \in Nat
                        /\ MaxSections \in Nat /\ MaxEdits \in Nat
                        /\ NONE \notin Seq(FileLine)
                        /\ \A id \in DOMAIN Lowered : Lowered[id] \in Name \ DOMAIN Lowered

-----------------------------------------------------------------------------
(* The id a key of that name gets: cpr_lower of it. *)
KeyId(id) == IF id \in DOMAIN Lowered THEN Lowered[id] ELSE id

(* get_keyvalue: the first key with exactly that id, which is in lower case. *)
get_keyvalue(section, id) ==
    IF \E k \in DOMAIN section.keys : section.keys[k].id = id
    THEN section.keys[SelectInSeq(section.keys, LAMBDA k : k.id = id)].value
    ELSE NONE

(* find_keysection: the first section with that name. *)
find_keysection(sections, id) ==
    IF \E s \in DOMAIN sections : sections[s].id = id
    THEN sections[SelectInSeq(sections, LAMBDA s : s.id = id)]
    ELSE NONE

(* make_keydata puts a key before those its section has, its name in lower case. *)
make_keydata(section, id, value) == [section EXCEPT !.keys = <<Key(KeyId(id), value)>> \o @]

(* make_keysection behind section number prior: what followed prior is cut off. *)
make_keysection(sections, prior, id) == SubSeq(sections, 1, prior) \o <<Section(id, <<>>)>>

-----------------------------------------------------------------------------
(* Mutant: a line is taken without looking for its end. *)
WholeOrTorn(line) == Len(line.text) <= LineMax

(* load_keyfile takes a line only if fgets found its end within linebuf; the *)
(* rest of a longer one begins like no key or section.                      *)
Whole(line) == line.nl /\ Len(line.text) <= LineMax

(* A section needs its '[' and ']' where the untrimmed length puts them, and *)
(* a name of more than one character: the root's own "[*]" opens no section. *)
Heading(line) == line.kind = "section" /\ ~line.indented /\ line.id \notin Short

(* A key of one character is passed over. *)
Entry(line) == line.kind = "key" /\ line.id \notin Short

(* Mutant: the quotes remain. *)
UnquoteNothing(text) == text

(* A pair of equal quotes around the text is removed. *)
Unquote(text) ==
    IF text # <<>> /\ Head(text) \in {"sq", "dq"} /\ Last(text) = Head(text)
    THEN SubSeq(text, 2, Len(text) - 1)
    ELSE text

(* One round of the loop of load_keyfile; the current section is the last. *)
LoadLine(sections, line) ==
    IF Whole(line) /\ Heading(line) THEN make_keysection(sections, Len(sections), line.id)
    ELSE IF Whole(line) /\ Entry(line)
    THEN [sections EXCEPT ![Len(sections)] = make_keydata(@, line.id, Unquote(line.text))]
    ELSE sections

load_keyfile(lines) ==
    LET load[n \in 0 .. Len(lines)] ==
            IF n = 0 THEN <<Section(Root, <<>>)>> ELSE LoadLine(load[n - 1], lines[n])
    IN  load[Len(lines)]

(* What save_keyfile prints: double quotes where the value has a single one. *)
Quote(text) == IF Contains(text, "sq") THEN <<"dq">> \o text \o <<"dq">>
               ELSE <<"sq">> \o text \o <<"sq">>

(* The two loops of save_keyfile: a key of the section it is at, or else the *)
(* heading of the next one.                                                  *)
AtKey     == printed.section > 0 /\ printed.key < Len(doc[printed.section].keys)
AtHeading == ~AtKey /\ printed.section < Len(doc)

KeyLine     == LET key == doc[printed.section].keys[printed.key + 1]
               IN  Line("key", key.id, Quote(key.value))
HeadingLine == Line("section", doc[printed.section + 1].id, <<>>)

-----------------------------------------------------------------------------
(* What a caller gets: where there is no file it makes an empty root. *)
LoadedFile == IF file = NONE THEN <<Section(Root, <<>>)>> ELSE load_keyfile(file)

KeyInit == /\ file \in FirstFiles
           /\ doc = NONE
           /\ saving = "idle"
           /\ printed = Nothing
           /\ target = LoadedFile
           /\ complete = FALSE
           /\ edits = 0

Load == /\ doc = NONE
        /\ doc' = LoadedFile
        /\ UNCHANGED <<file, saving, printed, target, complete, edits>>

Editing == doc # NONE /\ saving = "idle"
Edit(sections) == /\ Editing /\ edits < MaxEdits
                  /\ doc' = sections
                  /\ edits' = edits + 1
                  /\ UNCHANGED <<file, saving, printed, target, complete>>

MakeSection(prior, id) == /\ Editing /\ prior \in DOMAIN doc /\ prior < MaxSections
                          /\ Edit(make_keysection(doc, prior, id))

MakeKey(s, id, value) == /\ Editing /\ s \in DOMAIN doc
                         /\ Edit([doc EXCEPT ![s] = make_keydata(@, id, value)])

(* append_keysections: the document goes behind one loaded from the file. *)
AppendSections == /\ doc # NONE /\ file # NONE
                  /\ Len(doc) + Len(LoadedFile) <= MaxSections
                  /\ Edit(LoadedFile \o doc)

(* save_keyfile first removes the file... *)
SaveRemove == /\ Editing
              /\ file' = NONE
              /\ saving' = "removed"
              /\ target' = doc
              /\ complete' = FALSE
              /\ UNCHANGED <<doc, printed, edits>>

(* ... then opens it, which may fail... *)
SaveOpen == /\ saving = "removed"
            /\ \/ file' = <<>> /\ saving' = "writing" /\ printed' = Nothing
               \/ saving' = "idle" /\ UNCHANGED <<file, printed>>
            /\ UNCHANGED <<doc, target, complete, edits>>

(* ... prints line by line... *)
SavePrint == /\ saving = "writing"
             /\ \/ /\ AtKey
                   /\ file' = Append(file, KeyLine)
                   /\ printed' = [printed EXCEPT !.key = @ + 1]
                \/ /\ AtHeading
                   /\ file' = Append(file, HeadingLine)
                   /\ printed' = [section |-> printed.section + 1, key |-> 0]
             /\ UNCHANGED <<doc, saving, target, complete, edits>>

(* Where a save stops, the line it was at may have been written in part. *)
TailLost == \/ UNCHANGED file
            \/ saving = "writing" /\ AtKey /\ file' = Append(file, Torn(KeyLine))
            \/ saving = "writing" /\ AtHeading /\ file' = Append(file, Torn(HeadingLine))

(* ... and closes it.  Nobody looks whether the disk took it all. *)
SaveClose == /\ saving = "writing"
             /\ saving' = "idle"
             /\ complete' = ~(AtKey \/ AtHeading)
             /\ printed' = Nothing
             /\ TailLost
             /\ UNCHANGED <<doc, target, edits>>

(* free_keyfile *)
FreeDoc == /\ Editing
           /\ doc' = NONE
           /\ UNCHANGED <<file, saving, printed, target, complete, edits>>

Crash == /\ doc # NONE
         /\ doc' = NONE
         /\ saving' = "idle"
         /\ printed' = Nothing
         /\ TailLost
         /\ UNCHANGED <<target, complete, edits>>

KeyNext == \/ Load \/ AppendSections \/ FreeDoc \/ Crash
           \/ SaveRemove \/ SaveOpen \/ SavePrint \/ SaveClose
           \/ \E s \in 1 .. MaxSections :
                 \/ \E id \in SectionNames : MakeSection(s, id)
                 \/ \E id \in KeyNames, value \in Texts : MakeKey(s, id, value)

KeySpec == KeyInit /\ [][KeyNext]_keyVars
-----------------------------------------------------------------------------
(* A document the file format can hold: names of at least two characters      *)
(* behind the root, and values that fit into a line.                          *)
Plain(sections) ==
    \A s \in DOMAIN sections :
        /\ s > 1 => sections[s].id \notin Short
        /\ \A k \in DOMAIN sections[s].keys :
              /\ sections[s].keys[k].id \notin Short
              /\ Len(Quote(sections[s].keys[k].value)) <= LineMax

(* What a key is found to be, section by section. *)
Value(sections, name, id) ==
    LET s == find_keysection(sections, name)
    IN  IF s = NONE THEN NONE ELSE get_keyvalue(s, id)

Reversed(sections) == [s \in DOMAIN sections |-> Section(sections[s].id, Reverse(sections[s].keys))]

(* A document that was saved to the end comes back: every key is found where  *)
(* it was, with its value whatever quotes are in it, and under no other       *)
(* spelling of its name.  A key that was given more than once comes back with *)
(* the value it was given first, since save_keyfile prints the newest first   *)
(* and load_keyfile lets the last win.                                        *)
RoundTrip ==
    complete /\ Plain(target) =>
        \A name \in SectionNames \cup {Root}, id \in KeyNames :
            Value(LoadedFile, name, id) = Value(Reversed(target), name, id)

(* Wherever a crash, a full disk or a failing fopen() stopped a save, a later *)
(* load finds nothing but what that save was given: no key moves to another   *)
(* section and no half of a line is taken for a value.                        *)
NothingInvented ==
    Plain(target) =>
        /\ Len(LoadedFile) <= Len(target)
        /\ \A s \in DOMAIN LoadedFile :
              /\ LoadedFile[s].id = target[s].id
              /\ ToSet(LoadedFile[s].keys) \subseteq ToSet(target[s].keys)
=============================================================================
