--------------------------- MODULE ScyllaHideConfig ---------------------------
(***************************************************************************)
(* control_policy.cpp on scylla_hide.ini.  A text is a sequence of lines   *)
(* that the two functions tell apart: a section header with what stands    *)
(* between its brackets, a CurrentProfile assignment with what stands      *)
(* behind its "=", anything else.  Blanks around a line and a key are left *)
(* out; those inside the brackets and behind the "=" are part of a name.   *)
(***************************************************************************)
EXTENDS Sequences, FiniteSetsExt, Integers

CONSTANTS
  Name,         \* names that occur, "" and "SETTINGS" among them
  Fold,         \* [Name -> Name]: the lower-case form, which comparisons use
  Trim,         \* [Name -> Name]: without the blanks at both ends
  Listable,     \* 1 to 128 characters and no control character
  Askable,      \* Listable, no "[" in front and no "]" anywhere
  MaxProfiles,  \* the 128 sections that the catalogue holds
  Fits(_)       \* the text has at most 1 MiB and no NUL

ASSUME ConfigAssumption ==
  /\ Askable \subseteq Listable /\ Listable \subseteq Name /\ "" \notin Listable
  /\ MaxProfiles \in Nat

EqualInsensitive(left, right) == Fold[left] = Fold[right]

Section(name) == [kind |-> "section", name |-> name]
CurrentProfile(name) == [kind |-> "current", name |-> name]
OtherLine(name) == [kind |-> "other", name |-> name]

Refused == <<>>   \* nullopt; no text is empty

SectionLines(text) == {i \in DOMAIN text : text[i].kind = "section"}

\* currentSection when the scan has reached line i.
SectionAt(text, i) ==
  LET above == {j \in SectionLines(text) : j < i}
  IN IF above = {} THEN "" ELSE text[Max(above)].name

ProfileLines(text) ==
  {i \in DOMAIN text : /\ text[i].kind = "current"
                       /\ EqualInsensitive(SectionAt(text, i), "SETTINGS")}

Named(text, name) == {i \in SectionLines(text) : EqualInsensitive(text[i].name, name)}

\* SetScyllaHideProfile: the last section of that name lends its spelling, and
\* the one CurrentProfile line is rewritten.  SETTINGS is a section like others,
\* and nobody looks at the size of what comes out.
CanonicalProfile(text, requested) == text[Max(Named(text, requested))].name

SetScyllaHideProfile(text, requested) ==
  IF \/ ~Fits(text)
     \/ requested \notin Askable
     \/ Named(text, requested) = {}
     \/ Cardinality(ProfileLines(text)) # 1
  THEN Refused
  ELSE [text EXCEPT ![Max(ProfileLines(text))] =
                       CurrentProfile(CanonicalProfile(text, requested))]

\* ParseScyllaHideConfig: the profile in force, "" when the text is refused.  The
\* assigned name is trimmed, the names of the sections are not.
Catalogue(text) == {i \in SectionLines(text) : ~EqualInsensitive(text[i].name, "SETTINGS")}

Assigned(text) == Trim[text[Max(ProfileLines(text))].name]

Selected(text) == {i \in Catalogue(text) : EqualInsensitive(text[i].name, Assigned(text))}

ParseScyllaHideConfig(text) ==
  IF \/ ~Fits(text)
     \/ \E i \in Catalogue(text) : text[i].name \notin Listable
     \/ Cardinality(Catalogue(text)) > MaxProfiles
     \/ Cardinality(ProfileLines(text)) # 1
     \/ Assigned(text) = ""
     \/ Selected(text) = {}
  THEN ""
  ELSE text[Min(Selected(text))].name

=============================================================================
