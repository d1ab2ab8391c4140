----------------------------- MODULE DeriveEvent -----------------------------
(***************************************************************************)
(* #[derive(Event)]: how build_subject_expression (bus-macros/src/event.rs) *)
(* turns a subject template into the body of Event::subject, a format!      *)
(* with one argument per placeholder, and what rustc makes of that format   *)
(* string.  One action per turn of its loop.                                *)
(*                                                                         *)
(* A text is a sequence of atoms: braces, blanks, the prefix "self.", names *)
(* and other pieces of text that the scanner does not look into.            *)
(***************************************************************************)
EXTENDS Naturals, Sequences, SequencesExt

CONSTANTS
    Texts,      \* atoms that are no names: text, dots
    Names,      \* atoms that parse as identifiers
    Fields,     \* names of the fields of the struct
    Templates   \* the templates to be compiled

VARIABLES
    template,   \* subject = "..."
    rest,       \* what is not scanned yet
    format,     \* the format string
    arguments,  \* interpolation_arguments
    verdict     \* what becomes of the derive

scanVars == <<template, rest, format, arguments, verdict>>

Open == "{"
Close == "}"
Blank == " "
Self == "self."
Hole == "{}"
Atoms == {Open, Close, Blank, Self} \union Texts \union Names

ASSUME FieldsAssumption == Fields \subseteq Names
ASSUME AtomsAssumption ==
    Texts \union Names \subseteq STRING \ {Open, Close, Blank, Self, Hole}
ASSUME TemplatesAssumption == Templates \subseteq Seq(Atoms)

Verdicts == {"scanning", "rejected", "compiled"}

ScanInit ==
    /\ template \in Templates
    /\ rest = template
    /\ format = <<>>
    /\ arguments = <<>>
    /\ verdict = "scanning"

Reject ==
    /\ verdict' = "rejected"
    /\ UNCHANGED <<template, rest, format, arguments>>

-----------------------------------------------------------------------------
\* The first place of an atom, Len(t) + 1 if there is none.
Find(atom, t) ==
    CHOOSE i \in 1 .. Len(t) + 1 :
        /\ i <= Len(t) => t[i] = atom
        /\ \A j \in 1 .. i - 1 : t[j] # atom

\* "self." and a known field, with blanks anywhere but inside them: the text is
\* trimmed, and parse_str skips blanks around an identifier.
FieldsNamedBy(t) ==
    {f \in Fields :
        \E i, j \in DOMAIN t :
            /\ i < j
            /\ t[i] = Self /\ t[j] = f
            /\ \A k \in (DOMAIN t) \ {i, j} : t[k] = Blank}

Unclosed ==
    /\ verdict = "scanning"
    /\ Contains(rest, Open)
    /\ ~Contains(SubSeq(rest, Find(Open, rest) + 1, Len(rest)), Close)
    /\ Reject

\* Mutant: the arguments are collected from the last one to the first.
WithArgumentsReversed(named) == SetToSeq(named) \o arguments

WithArguments(named) == arguments \o SetToSeq(named)

\* One turn of the loop.
Interpolate ==
    /\ verdict = "scanning"
    /\ Contains(rest, Open)
    /\ LET open == Find(Open, rest)
           inside == SubSeq(rest, open + 1, Len(rest))
           close == Find(Close, inside)
           named == FieldsNamedBy(SubSeq(inside, 1, close - 1))
       IN /\ close <= Len(inside)
          /\ IF named = {}
             THEN Reject
             ELSE /\ format' = format \o SubSeq(rest, 1, open - 1) \o <<Hole>>
                  /\ arguments' = WithArguments(named)
                  /\ rest' = SubSeq(inside, close + 1, Len(inside))
                  /\ UNCHANGED <<template, verdict>>

-----------------------------------------------------------------------------
(* The format string is code: in format! a brace of its own is written "}}". *)

\* How many places of a set stand in a row right before place i.
RunBefore(i, places) ==
    CHOOSE n \in 0 .. i - 1 : i - n .. i - 1 \subseteq places /\ i - n - 1 \notin places

Braces(t) == {i \in DOMAIN t : t[i] = Close}

\* The second of two "}" is lost, and so on in a longer row.
Collapsed(t, i) == t[i] = Close /\ RunBefore(i, Braces(t)) % 2 = 1

\* Every row of "}" is one of pairs.
BracesEscaped(t) == \A i \in Braces(t) : i + 1 \notin Braces(t) => Collapsed(t, i)

\* Mutant: the subject is always built with format!.
ExpandsAlways == BracesEscaped(format \o rest)

\* A template without placeholders becomes a string literal, and no format string.
Expands == arguments = <<>> \/ BracesEscaped(format \o rest)

Finish ==
    /\ verdict = "scanning"
    /\ ~Contains(rest, Open)
    /\ format' = format \o rest
    /\ rest' = <<>>
    /\ verdict' = IF Expands THEN "compiled" ELSE "rejected"
    /\ UNCHANGED <<template, arguments>>

Scan == Unclosed \/ Interpolate \/ Finish

ScanSpec == ScanInit /\ [][Scan]_scanVars

\* What a place of the format string comes to: the next argument, nothing, or itself.
Expansion(value, i) ==
    CASE format[i] = Hole ->
            value[arguments[Cardinality({j \in 1 .. i : format[j] = Hole})]]
      [] Collapsed(format, i) -> <<>>
      [] OTHER -> <<format[i]>>

\* What the generated subject() returns for an event with these field values.
Subject(value) ==
    IF arguments = <<>>
    THEN format
    ELSE FlattenSeq([i \in DOMAIN format |-> Expansion(value, i)])

-----------------------------------------------------------------------------
(* What a template means, without a scanner *)

\* The place of the brace that closes the one at place i.
Closes(t, i, j) == j > i /\ t[j] = Close /\ \A k \in i + 1 .. j - 1 : t[k] \notin {Open, Close}

\* The placeholders of a text: where they open, where they close, what they name.
Placeholders(t) ==
    {p \in (DOMAIN t) \X (DOMAIN t) \X Fields :
        /\ t[p[1]] = Open
        /\ Closes(t, p[1], p[2])
        /\ p[3] \in FieldsNamedBy(SubSeq(t, p[1] + 1, p[2] - 1))}

WellFormed(t) == \A i \in DOMAIN t : t[i] = Open => \E p \in Placeholders(t) : p[1] = i

\* A "}" that closes nothing.
StrayBraces(t) == {i \in DOMAIN t : t[i] = Close /\ ~\E p \in Placeholders(t) : p[2] = i}

\* It is the second one of a pair.
Paired(t, i) == i \in StrayBraces(t) /\ RunBefore(i, StrayBraces(t)) % 2 = 1

\* Every placeholder gives its field's value, a pair of stray braces one brace,
\* everything else itself.
MeaningAt(t, value, i) ==
    IF \E p \in Placeholders(t) : p[1] = i
    THEN value[(CHOOSE p \in Placeholders(t) : p[1] = i)[3]]
    ELSE IF Paired(t, i) \/ \E p \in Placeholders(t) : p[1] < i /\ i <= p[2]
         THEN <<>>
         ELSE <<t[i]>>

\* A text without placeholders means itself.
Meaning(t, value) ==
    IF Placeholders(t) = {}
    THEN t
    ELSE FlattenSeq([i \in DOMAIN t |-> MeaningAt(t, value, i)])

\* Every row of stray braces is one of pairs.
StraysArePaired(t) ==
    \A i \in StrayBraces(t) : i + 1 \notin StrayBraces(t) => Paired(t, i)

\* The derive accepts the templates with a meaning; beside placeholders, stray braces
\* must come in pairs.
DeriveAcceptsTemplates ==
    verdict # "scanning" =>
        (verdict = "compiled" <=>
            /\ WellFormed(template)
            /\ Placeholders(template) = {} \/ StraysArePaired(template))
=============================================================================
