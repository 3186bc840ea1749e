----------------------------- MODULE ConfirmName ----------------------------
(***************************************************************************)
(* The typed confirmation of a flash: the phrase the confirm step shows    *)
(* (policy.confirmation_phrase), what the operator types, and whether the  *)
(* server takes it (policy.check_override).                                *)
(*                                                                         *)
(* A text is a sequence of characters of five kinds: two letters, one of   *)
(* them in both cases, a blank, and a glyph that policy calls untypeable.  *)
(***************************************************************************)
EXTENDS Integers, Lists

CONSTANT MaxLength   \* bound: characters of a name and of what is typed

ASSUME LengthAssumption == MaxLength \in Nat

Letters    == {"a", "A", "b"}
Characters == Letters \cup {"blank", "glyph"}
Texts      == BoundedSeq(Characters, MaxLength)

VARIABLES
    name,       \* Device.display_name, which is never empty
    shown,      \* the phrase on the confirm page
    typed,      \* the form's confirm_name
    answer      \* what check_override said

vars == <<name, shown, typed, answer>>

Init ==
    /\ name \in Texts \ {<< >>}
    /\ shown = << >>
    /\ typed = << >>
    /\ answer = "none"

-----------------------------------------------------------------------------
(***************************************************************************)
(* policy.py                                                               *)
(***************************************************************************)

(* Without the glyphs of _UNTYPEABLE.                                      *)
Typeable(s) == Kept(s, Characters \ {"glyph"})

(* " ".join(s.split())                                                     *)
AddChar(t, c) ==
    IF c = "blank" /\ (t = << >> \/ Last(t) = "blank") THEN t ELSE Append(t, c)

Collapsed(s) ==
    LET t == FoldLeft(AddChar, << >>, s)
    IN  IF t # << >> /\ Last(t) = "blank" THEN Front(t) ELSE t

(* str.casefold                                                            *)
Lower(c)  == IF c = "A" THEN "a" ELSE c
Folded(s) == [i \in DOMAIN s |-> Lower(s[i])]

(* Mutant: the phrase is the name as fwupd reports it.                     *)
confirmation_phrase_Raw(n) == n

confirmation_phrase(n) ==
    LET stripped == Collapsed(Typeable(n))
    IN  IF stripped # << >> THEN stripped ELSE n

_normalize(s) == Folded(Collapsed(Typeable(s)))

(* Mutant: only an absent answer is refused, and not an empty one.         *)
check_override_EmptyAllowed(n, t) == t # << >> /\ _normalize(t) = _normalize(n)

check_override(n, t) ==
    /\ t # << >>
    /\ _normalize(t) # << >>
    /\ _normalize(t) = _normalize(n)

-----------------------------------------------------------------------------

(* GET /devices/{id}/confirm                                               *)
flash_confirm ==
    /\ shown' = confirmation_phrase(name)
    /\ typed' = << >>
    /\ answer' = "none"
    /\ UNCHANGED name

(* POST /flash with whatever the operator typed.                           *)
start_flash ==
    /\ shown # << >>
    /\ answer = "none"
    /\ typed' \in Texts
    /\ answer' = IF check_override(name, typed') THEN "yes" ELSE "no"
    /\ UNCHANGED <<name, shown>>

Next == flash_confirm \/ start_flash

Spec == Init /\ [][Next]_vars

-----------------------------------------------------------------------------
(***************************************************************************)
(* Properties                                                              *)
(***************************************************************************)

(* The words of a text, said another way: the letters between two blanks,  *)
(* whatever glyphs are among them, regardless of case.  The last word read *)
(* so far is empty after a blank.                                          *)
ReadChar(words, c) ==
    CASE c = "blank"    -> IF Last(words) = << >> THEN words ELSE Append(words, << >>)
      [] c \in Letters -> Append(Front(words), Append(Last(words), Lower(c)))
      [] c = "glyph"    -> words

Words(s) ==
    LET words == FoldLeft(ReadChar, << << >> >>, s)
    IN  IF Last(words) = << >> THEN Front(words) ELSE words

(* check_override is forgiving about presentation and strict about         *)
(* content: it accepts exactly the words of the name, and a name without a *)
(* word is confirmed by nothing.                                           *)
ConfirmedByWords ==
    answer # "none" =>
        (answer = "yes" <=> Words(typed) # << >> /\ Words(typed) = Words(name))

(* A name that has a word is shown as a phrase without glyphs, and typing  *)
(* the phrase confirms the flash.                                          *)
PhraseWorks ==
    shown # << >> /\ Words(name) # << >> =>
        /\ \A i \in DOMAIN shown : shown[i] # "glyph"
        /\ check_override(name, shown)

(* README.md claims of every device: "the UI shows a phrase you can        *)
(* actually type".  It does not hold for a name of glyphs only.            *)
PhraseAlwaysWorks == shown # << >> => check_override(name, shown)
=============================================================================
