------------------------------ MODULE Profiles ------------------------------
(***************************************************************************)
(* The position profiles of one post (db/position_profiles.py) and those   *)
(* who write them: the extraction, the admin's editor                      *)
(* (api/routes_position_editor.py), the import of reviews                  *)
(* (taxonomy_review.py) and the preview (taxonomy_preview.py).  A crawl    *)
(* may change the text of the post at any time.                            *)
(*                                                                         *)
(* A hash is the text it was computed from, a revision is what it was      *)
(* computed from; the labels of the profiles are one value.                *)
(*                                                                         *)
(* Operators named Mut_... are mistakes a developer could make in the      *)
(* definition that follows them; the specification does not use them.      *)
(***************************************************************************)
EXTENDS Integers

CONSTANTS
  Text, Label,
  Editor,    \* admins with the editor open
  None,
  MaxWrites  \* bound of the model: the changes of the text and the writes of the profiles

VARIABLES
  text,      \* of the post, with its title
  profiles,  \* the rows, or None
  lock,      \* the editor whose transaction holds the generation lock
  pc, seen,  \* an editor: its place, and the revision it was shown
  exported,  \* the text of the preview that is being reviewed offline
  preview,   \* what a run of the preview has read
  reading,   \* what the extraction has read
  compared,  \* history: the text that an extraction has compared with the review
  writes

people == <<lock, pc, seen>>
vars   == <<text, profiles, people, exported, preview, reading, compared, writes>>

Origin == {"extractor", "historical_preview"}
Row == [origin : Origin, label : Label, reviewed : BOOLEAN, changed : BOOLEAN, hash : Text]
NeedsReview(p) == ~p.reviewed \/ p.changed

TypeOK ==
  /\ text \in Text /\ profiles \in Row \cup {None} /\ lock \in Editor \cup {None}
  /\ profiles # None =>
       /\ profiles.changed => profiles.reviewed
       /\ profiles.origin = "historical_preview" => ~profiles.reviewed
  /\ pc \in [Editor -> {"closed", "open", "check", "save"}]
  /\ \A e \in Editor : pc[e] # "closed" => seen[e][1] \in Text /\ seen[e][2] \in Row \cup {None}
  /\ exported \in Text \cup {None} /\ preview \in Text \cup {None}
  /\ reading \in Text \cup {None} /\ compared \in Text \cup {None}
  /\ writes \in 0..MaxWrites

Init ==
  /\ text \in Text /\ profiles = None /\ lock = None
  /\ pc = [e \in Editor |-> "closed"] /\ seen = [e \in Editor |-> <<None, None>>]
  /\ exported = None /\ preview = None /\ reading = None /\ compared = None /\ writes = 0

Mut_Free == TRUE
\* Every writer of posts or profiles takes the generation lock first.
Free == lock = None

Written == Free /\ writes < MaxWrites /\ writes' = writes + 1

Crawl(t) ==
  /\ Written /\ text # t /\ text' = t
  /\ UNCHANGED <<profiles, people, exported, preview, reading, compared>>

-----------------------------------------------------------------------------
(* The extraction and the preview.                                         *)

New(origin, l, reviewed, of) ==
  [origin |-> origin, label |-> l, reviewed |-> reviewed, changed |-> FALSE, hash |-> of]

Reviewed == profiles # None /\ profiles.reviewed

\* The lease lets one extraction work (Processing).
ReadText ==
  /\ reading = None /\ reading' = text
  /\ UNCHANGED <<text, profiles, people, exported, preview, compared, writes>>

Mut_Marked(of) == profiles
\* A review stays; it is marked if it was made on another text, for good.
Marked(of) == IF profiles.hash = of THEN profiles ELSE [profiles EXCEPT !.changed = TRUE]

\* The new set may be empty.
Extracted(l, of) ==
  IF Reviewed THEN Marked(of) ELSE IF l = None THEN None ELSE New("extractor", l, FALSE, of)

SaveExtraction(l) ==
  /\ reading # None /\ Written /\ profiles' = Extracted(l, reading)
  /\ compared' = (IF Reviewed THEN reading ELSE None) /\ reading' = None
  /\ UNCHANGED <<text, people, exported, preview>>

\* Lost lease, failed call, dead process.
DropExtraction ==
  /\ reading # None /\ reading' = None
  /\ UNCHANGED <<text, profiles, people, exported, preview, compared, writes>>

\* The preview reads all posts, and writes them one by one.
ReadPreview ==
  /\ preview = None /\ preview' = text /\ exported' = text
  /\ UNCHANGED <<text, profiles, people, reading, compared, writes>>

Mut_Replaceable(refresh) == profiles = None \/ refresh
\* Without --refresh-preview only a post without profiles is written, with it
\* also an unreviewed preview.
Replaceable(refresh) ==
  \/ profiles = None
  \/ refresh /\ profiles.origin = "historical_preview" /\ NeedsReview(profiles)

StorePreview(l, refresh) ==
  /\ preview # None /\ Written /\ preview' = None
  /\ profiles' = (IF Replaceable(refresh) THEN New("historical_preview", l, FALSE, preview)
                  ELSE profiles)
  /\ UNCHANGED <<text, people, exported, reading, compared>>

\* Without --store.
EndPreview ==
  /\ preview # None /\ preview' = None
  /\ UNCHANGED <<text, profiles, people, exported, reading, compared, writes>>

-----------------------------------------------------------------------------
(* People.                                                                 *)

Goto(e, l) == pc' = [pc EXCEPT ![e] = l]

\* load_editor.
Load(e) ==
  /\ pc[e] \in {"closed", "open"} /\ Goto(e, "open")
  /\ seen' = [seen EXCEPT ![e] = <<text, profiles>>]
  /\ UNCHANGED <<text, profiles, lock, exported, preview, reading, compared, writes>>

\* correct_positions: the generation, the post, and only then the state.
Lock(e) ==
  /\ pc[e] = "open" /\ Free /\ lock' = e /\ Goto(e, "check")
  /\ UNCHANGED <<text, profiles, seen, exported, preview, reading, compared, writes>>

Mut_Current(e) == profiles = seen[e][2]
\* The revision is a hash of the text and of the rows.
Current(e) == seen[e] = <<text, profiles>>

Accept(e) ==
  /\ pc[e] = "check" /\ Current(e) /\ Goto(e, "save")
  /\ UNCHANGED <<text, profiles, lock, seen, exported, preview, reading, compared, writes>>

Conflict(e) ==
  /\ pc[e] = "check" /\ ~Current(e) /\ Goto(e, "closed") /\ lock' = None
  /\ UNCHANGED <<text, profiles, seen, exported, preview, reading, compared, writes>>

Save(e, l) ==
  /\ pc[e] = "save" /\ writes < MaxWrites /\ writes' = writes + 1
  /\ profiles' = New("extractor", l, TRUE, text) /\ compared' = None
  /\ Goto(e, "closed") /\ lock' = None
  /\ UNCHANGED <<text, seen, exported, preview, reading>>

\* Unsupported facets, an error, or the process dies: rolled back.
Drop(e) ==
  /\ pc[e] \in {"check", "save"} /\ Goto(e, "closed") /\ lock' = None
  /\ UNCHANGED <<text, profiles, seen, exported, preview, reading, compared, writes>>

Mut_Imports == exported # None
\* Under the same locks; a changed text refuses the whole file.
Imports == exported # None /\ exported = text

Import(l) ==
  /\ Written /\ Imports
  /\ profiles' = New("extractor", l, TRUE, exported) /\ compared' = None
  /\ UNCHANGED <<text, people, exported, preview, reading>>

-----------------------------------------------------------------------------
Next ==
  \/ \E t \in Text : Crawl(t)
  \/ ReadText \/ DropExtraction \/ ReadPreview \/ EndPreview
  \/ \E l \in Label \cup {None} : SaveExtraction(l)
  \/ \E l \in Label : Import(l) \/ \E b \in BOOLEAN : StorePreview(l, b)
  \/ \E e \in Editor : \/ Load(e) \/ Lock(e) \/ Accept(e) \/ Conflict(e) \/ Drop(e)
                       \/ \E l \in Label : Save(e, l)

Spec == Init /\ [][Next]_vars

-----------------------------------------------------------------------------
(* Properties.                                                             *)

\* What an admin saves replaces exactly what it was shown, the text included
\* (docs/POSITION_TAXONOMY_IMPLEMENTATION.md:72: an old copy is answered 409).
NoLostCorrection ==
  [][\A e \in Editor :
       lock = e /\ profiles' # profiles => seen[e] = <<text, profiles>>]_vars

PersonWrites == lock # None \/ (exported = text /\ profiles' # None /\ profiles'.hash = text)

\* What a person has confirmed is not changed by an extraction or a preview,
\* and what an extraction has found is not changed by a preview, whatever each
\* had read before (docs/POSITION_TAXONOMY_IMPLEMENTATION.md:86).
Authority ==
  [][/\ Reviewed => \/ PersonWrites
                    \/ profiles' \in {profiles, [profiles EXCEPT !.changed = TRUE]}
     /\ profiles # None /\ profiles.origin = "extractor" =>
          \/ profiles' = None
          \/ profiles'.origin = "extractor"]_vars

\* Once an extraction has met a review of another text, the review is marked
\* until a person confirms it anew.
StaleIsMarked == Reviewed /\ compared # None /\ profiles.hash # compared => profiles.changed

\* A review is of a text that the post really has while it is confirmed.
ReviewIsOfText ==
  [][~Reviewed /\ profiles' # None /\ profiles'.reviewed => profiles'.hash = text]_vars

\* All that protects a person's review (save_profiles, correct_positions,
\* import_reviews).
ReviewsAreRespected == []StaleIsMarked /\ NoLostCorrection /\ Authority /\ ReviewIsOfText
=============================================================================
