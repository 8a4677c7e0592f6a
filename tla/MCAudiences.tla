----------------------------- MODULE MCAudiences -----------------------------
(* Instances of Audiences for TLC. *)
EXTENDS Audiences, TLC

\* All contacts are spellings of one address.
OneAddress == [c \in Contact |-> "x"]

Both == {<<1, "a">>, <<2, "a">>, <<1, "b">>}

On(op, list, spelled) ==
    [field |-> "mailing_audience_id", op |-> op,
     values |-> {[list |-> list, spelled |-> spelled]}]

\* A mailing to two lists by both positive operators, in different spellings.
ToBoth == (1 :> {On("=", "b", "capitals"), On("in", "a", "bare")})

\* One mailing targets the list, another excludes it; a third does not parse.
EachWay == (1 :> {On("in", "a", "as_stored")}) @@
           (2 :> {On("=", "b", "as_stored"), On("not in", "a", "as_stored")}) @@
           (3 :> {On("like", "a", "garbled")})

\* The list in capitals.
Capitals == (1 :> {On("in", "a", "capitals")})

\* No request differs from another, and no definition picks one.
Alike == Permutations(Reader)
=============================================================================
