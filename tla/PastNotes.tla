------------------------------- MODULE PastNotes -------------------------------
(* The notes on one instrument: a file behind the Web's route                        *)
(* (market-past-note-repository.ts, each call under the lock of FileStore, so one    *)
(* step here), and the panels that show and write them (MarketPastNotesPanel.svelte). *)
(* A file's revision token is a hash of its bytes: here it is its content, and the   *)
(* absent file is the empty one, which no save writes.  A note lives for NoteLife.   *)
EXTENDS Naturals, FiniteSets, Sequences, SequencesExt

CONSTANTS
  Panels, NoteReasons, NoteLife,
  LastNoteTime,    \* bound: the clock
  MaxTexts,        \* bound: texts that are typed
  Blank, NoToken, NoSave

Note == [reason : NoteReasons, text : Nat, at : Nat]
Draft == [reason : NoteReasons, text : Nat]
Save == [draft : Draft, edits : Nat, token : Seq(Note), reply : Seq(Note) \cup {NoToken}]

ASSUME NoteAssumption == NoteLife \in Nat
ASSUME BlankIsNothing == Blank \notin Draft /\ NoToken \notin Seq(Note) /\ NoSave \notin Save

VARIABLES noteTime, noteFile, panels, texts

noteVars == <<noteTime, noteFile, panels, texts>>

ClosedPanel ==
  [viewing |-> FALSE, token |-> NoToken,
   draft |-> Blank, edits |-> 0, save |-> NoSave]

NotesInit ==
  /\ noteTime = 0
  /\ noteFile = <<>>
  /\ panels = [p \in Panels |-> ClosedPanel]
  /\ texts = 0

IsActive(note) == note.at + NoteLife > noteTime

(* the panel turns to the instrument, with the draft it left there *)
VisitNotes(p) ==
  /\ ~panels[p].viewing
  /\ panels' = [panels EXCEPT ![p] = [@ EXCEPT !.viewing = TRUE, !.token = NoToken]]
  /\ UNCHANGED <<noteTime, noteFile, texts>>

(* list, shown at once: an answer that comes later is one that is older by then *)
ListNotes(p) ==
  /\ panels[p].viewing /\ panels[p].token = NoToken
  /\ panels' = [panels EXCEPT ![p].token = noteFile]
  /\ UNCHANGED <<noteTime, noteFile, texts>>

(* another instrument is turned to, a save goes on *)
LeaveNotes(p) ==
  /\ panels[p].viewing
  /\ panels' = [panels EXCEPT ![p] = [@ EXCEPT !.viewing = FALSE, !.token = NoToken]]
  /\ UNCHANGED <<noteTime, noteFile, texts>>

TypeText(p) ==
  /\ panels[p].viewing /\ texts < MaxTexts
  /\ \E reason \in NoteReasons :
       panels' = [panels EXCEPT ![p] =
         [panels[p] EXCEPT !.draft = [reason |-> reason, text |-> texts + 1],
                           !.edits = panels[p].edits + 1]]
  /\ texts' = texts + 1
  /\ UNCHANGED <<noteTime, noteFile>>

SaveNote(p) ==
  LET panel == panels[p] IN
  /\ panel.viewing /\ panel.draft # Blank /\ panel.token # NoToken /\ panel.save = NoSave
  /\ panels' = [panels EXCEPT ![p].save =
       [draft |-> panel.draft, edits |-> panel.edits, token |-> panel.token, reply |-> NoToken]]
  /\ UNCHANGED <<noteTime, noteFile, texts>>

(* the positions of the notes that have not expired under other reasons *)
Staying(draft) ==
  {i \in DOMAIN noteFile : IsActive(noteFile[i]) /\ noteFile[i].reason # draft.reason}

InOrder(positions) ==
  CHOOSE s \in [1..Cardinality(positions) -> positions] :
    \A i, j \in DOMAIN s : i < j => s[i] < s[j]

(* save: the new note first, then those that stay *)
NotesWith(draft) ==
  LET order == InOrder(Staying(draft))
  IN  <<[reason |-> draft.reason, text |-> draft.text, at |-> noteTime]>>
        \o [i \in DOMAIN order |-> noteFile[order[i]]]

TokenMatches(save) == save.token = noteFile

ServeSave(p) ==
  LET save == panels[p].save IN
  /\ save # NoSave /\ save.reply = NoToken /\ TokenMatches(save)
  /\ noteFile' = NotesWith(save.draft)
  /\ panels' = [panels EXCEPT ![p].save.reply = NotesWith(save.draft)]
  /\ UNCHANGED <<noteTime, texts>>

(* the draft is cleared only if it was not edited since it was sent *)
DraftIsAsSent(panel) == panel.edits = panel.save.edits

TakeSaved(p) ==
  LET panel == panels[p]
      cleared == panel.viewing /\ DraftIsAsSent(panel)
  IN
  /\ panel.save # NoSave /\ panel.save.reply # NoToken
  /\ panels' = [panels EXCEPT ![p] =
       [panel EXCEPT !.save = NoSave,
                     !.token = IF panel.viewing THEN panel.save.reply ELSE panel.token,
                     !.draft = IF cleared THEN Blank ELSE panel.draft,
                     !.edits = IF cleared THEN panel.edits + 1 ELSE panel.edits]]
  /\ UNCHANGED <<noteTime, noteFile, texts>>

(* another token, an instrument that is not listed as it was, a request or an answer *)
(* that is lost: text and token stay                                                 *)
FailSave(p) ==
  /\ panels[p].save # NoSave
  /\ panels' = [panels EXCEPT ![p].save = NoSave]
  /\ UNCHANGED <<noteTime, noteFile, texts>>

NoteTick ==
  /\ noteTime < LastNoteTime
  /\ noteTime' = noteTime + 1
  /\ UNCHANGED <<noteFile, panels, texts>>

NotesNext ==
  \/ \E p \in Panels :
       \/ VisitNotes(p) \/ ListNotes(p) \/ LeaveNotes(p) \/ TypeText(p)
       \/ SaveNote(p) \/ ServeSave(p) \/ TakeSaved(p) \/ FailSave(p)
  \/ NoteTick

(* A note leaves its file only when it has expired, or when a panel that had listed  *)
(* it saves another under its reason: never by a save of a panel that did not know   *)
(* it, whatever panels save in between and whatever answers are lost.                *)
NotesAreKept ==
  [][\A note \in ToSet(noteFile) \ ToSet(noteFile') :
       \/ ~IsActive(note)
       \/ \E p \in Panels :
            LET save == panels[p].save IN
            /\ save # NoSave /\ panels'[p].save # save
            /\ save.draft.reason = note.reason /\ note \in ToSet(save.token)]_noteVars

(* The answer to a save never clears a text that was typed after it was sent, also   *)
(* when the panel was turned away and back in the meantime.                          *)
DraftsAreKept ==
  [][\A p \in Panels :
       panels'[p].draft = Blank => panels[p].draft \in {Blank}
         \cup (IF panels[p].save = NoSave THEN {} ELSE {panels[p].save.draft})]_noteVars
================================================================================
