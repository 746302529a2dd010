---------------------------- MODULE TokenTemplate ----------------------------
(***************************************************************************)
(* The claim template (src/src/token.rs).  A text is a sequence of symbols: *)
(* "$", "{", "}", the name of a placeholder, or any literal.  A value is a  *)
(* string or a scalar, both with the text they are printed as, a structure  *)
(* (null, an array or an object), or an error.                              *)
(***************************************************************************)
EXTENDS Integers, Sequences, FiniteSetsExt

String(text) == [kind |-> "string", text |-> text]
Scalar(text) == [kind |-> "scalar", text |-> text]
Structure == [kind |-> "structure", text |-> <<>>]
Error == [kind |-> "error", text |-> <<>>]

(* Where find("${") may stop. *)
Opens(text) ==
  {i \in 1 .. Len(text) - 1 : text[i] = "$" /\ text[i + 1] = "{"}

(* Where find('}') may stop, from the symbol after "${" on. *)
Closes(text, open) == {i \in open + 2 .. Len(text) : text[i] = "}"}

(* resolve_placeholder: bindings is a function from the names it knows.     *)
Resolve(name, bindings) ==
  IF Len(name) = 1 /\ name[1] \in DOMAIN bindings
  THEN bindings[name[1]]
  ELSE Error

(* extract_placeholder: the text as a whole is one placeholder; whatever    *)
(* stands between "${" and the last "}" is its name.                        *)
IsPlaceholder(text) ==
  Len(text) > 3 /\ 1 \in Opens(text) /\ text[Len(text)] = "}"

(* A placeholder that is the whole text is replaced by its value, of any    *)
(* kind, which is not looked into again.                                    *)
Whole(text, bindings) == Resolve(SubSeq(text, 3, Len(text) - 1), bindings)

(* Seeded fault: the closing brace stays in the text. *)
ExpandFirstKeeping(text, bindings) ==
  LET open  == Min(Opens(text))
      close == Min(Closes(text, open))
      value == Resolve(SubSeq(text, open + 2, close - 1), bindings)
  IN
  IF Closes(text, open) = {} \/ value.kind \in {"error", "structure"}
  THEN Error
  ELSE String(SubSeq(text, 1, open - 1) \o value.text
                \o SubSeq(text, close, Len(text)))

(* Seeded fault: the value is put before the placeholder. *)
ExpandFirstInserting(text, bindings) ==
  LET open  == Min(Opens(text))
      close == Min(Closes(text, open))
      value == Resolve(SubSeq(text, open + 2, close - 1), bindings)
  IN
  IF Closes(text, open) = {} \/ value.kind \in {"error", "structure"}
  THEN Error
  ELSE String(SubSeq(text, 1, open - 1) \o value.text
                \o SubSeq(text, open, Len(text)))

(* One round of the loop: the first placeholder gives way to its value, and *)
(* the next round starts at the beginning of the result.                    *)
ExpandFirst(text, bindings) ==
  LET open  == Min(Opens(text))
      close == Min(Closes(text, open))
      value == Resolve(SubSeq(text, open + 2, close - 1), bindings)
  IN
  IF Closes(text, open) = {} \/ value.kind \in {"error", "structure"}
  THEN Error
  ELSE String(SubSeq(text, 1, open - 1) \o value.text
                \o SubSeq(text, close + 1, Len(text)))

(* ensure_required_claims *)
HasRequiredClaims(claims) == {"iss", "sub", "aud", "iat", "exp", "jti"} \subseteq claims

-----------------------------------------------------------------------------
(* What rendering is meant to compute; only the properties use it.          *)

(* What a pass over the text as it was written makes of it from each place  *)
(* on.                                                                      *)
Pass(text, bindings) ==
  LET name(i) == SubSeq(text, i + 2, Min(Closes(text, i)) - 1)
      rest[i \in 1 .. Len(text) + 1] ==
        IF i > Len(text) THEN <<>>
        ELSE IF i \notin Opens(text) THEN <<text[i]>> \o rest[i + 1]
        ELSE Resolve(name(i), bindings).text \o rest[Min(Closes(text, i)) + 1]
  IN  rest

(* Every placeholder replaced in one pass. *)
OnePass(text, bindings) == Pass(text, bindings)[1]

(* The placeholders a text refers to. *)
Mentions(text) == {text[i + 2] : i \in {j \in Opens(text) : j + 2 <= Len(text)}}

(* A dollar of the text begins a complete placeholder, or a symbol follows  *)
(* it that keeps it from ever beginning one: the text cannot form another   *)
(* placeholder with its neighbours, even when a value between them is empty. *)
Complete(text) ==
  \A i \in DOMAIN text : text[i] = "$" =>
    /\ i < Len(text)
    /\ text[i + 1] # "$"
    /\ text[i + 1] = "{" => i + 3 <= Len(text) /\ text[i + 2] # "}" /\ text[i + 3] = "}"

(* Expanding the given names comes across names of the set only. *)
LeadsInto(names, set, bindings) ==
  /\ names \subseteq set
  /\ \A n \in set \cap DOMAIN bindings : Mentions(bindings[n].text) \subseteq set

(* No value leads back to its own name. *)
Acyclic(bindings) ==
  LET mentions(n) == Mentions(bindings[n].text)
      names       == DOMAIN bindings \cup UNION {mentions(n) : n \in DOMAIN bindings}
  IN
  \A n \in DOMAIN bindings :
    /\ Complete(bindings[n].text)
    /\ \E set \in SUBSET (names \ {n}) : LeadsInto(mentions(n), set, bindings)

(* The loop over the text meets known names only, of values that can stand  *)
(* in a text.                                                               *)
Expands(text, bindings) ==
  /\ Complete(text)
  /\ \E met \in SUBSET DOMAIN bindings :
       /\ LeadsInto(Mentions(text), met, bindings)
       /\ \A n \in met : /\ Complete(bindings[n].text)
                         /\ bindings[n].kind \in {"string", "scalar"}

(* Rendering the text does not fail: a placeholder as a whole is known,     *)
(* another text expands.                                                    *)
Renders(text, bindings) ==
  IF IsPlaceholder(text) THEN Whole(text, bindings) # Error
  ELSE Expands(text, bindings)
=============================================================================
