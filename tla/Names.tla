-------------------------------- MODULE Names --------------------------------
(***************************************************************************)
(* internal/igdb/name.go: from the name of a ROM file to the names it is   *)
(* searched by.  A name is a sequence of words and of the pieces of        *)
(* punctuation that the code looks for.                                    *)
(***************************************************************************)
EXTENDS Integers, Sequences, SequencesExt

Space  == " "
Dash   == " - "
Colon  == ": "
Tag    == " (tag)"   \* in parentheses or brackets, with the space before it
Hash   == " # hash"  \* suffix of a translation patch

\* CleanName: every tag goes, then a hash suffix if the name ends in one.
CleanName(raw) ==
    LET name == SelectSeq(raw, LAMBDA p : p # Tag)
    IN  IF name # <<>> /\ Last(name) = Hash THEN Front(name) ELSE name

\* strings.ReplaceAll, on whole pieces.
Replace(name, f) == [i \in DOMAIN name |-> IF name[i] \in DOMAIN f THEN f[name[i]] ELSE name[i]]

DashesToColons(name) == Replace(name, [p \in {Dash} |-> Colon])

\* Removing the spaces also changes the separators that hold some.
SpacesRemoved(name) ==
    SelectSeq(Replace(name, [p \in {Dash, Colon, Hash} |->
                                CASE p = Dash -> "-" [] p = Colon -> ":" [] p = Hash -> "#hash"]),
              LAMBDA p : p # Space)

\* What stands before the first " - ", or before the first ": " if there is
\* no " - "; nothing if neither occurs after the beginning.
SubtitleDropped(name) ==
    LET First(p) == SelectInSeq(name, LAMBDA q : q = p)
    IN  CASE First(Dash) > 1  -> SubSeq(name, 1, First(Dash) - 1)
          [] First(Dash) <= 1 /\ First(Colon) > 1 -> SubSeq(name, 1, First(Colon) - 1)
          [] OTHER -> <<>>

\* Mutant of AddVariant: only empty names are left out.
AddVariantAgain(variants, name) ==
    IF name = <<>> THEN variants ELSE Append(variants, name)

\* add: a variant that is empty or known is not added.
AddVariant(variants, name) ==
    IF name = <<>> \/ Contains(variants, name) THEN variants ELSE Append(variants, name)

NameVariants(name) ==
    IF name = <<>> THEN <<>>
    ELSE AddVariant(AddVariant(AddVariant(<<name>>, DashesToColons(name)),
                               SpacesRemoved(name)),
                    SubtitleDropped(name))
=============================================================================
