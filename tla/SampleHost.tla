----------------------------- MODULE SampleHost -----------------------------
(***************************************************************************)
(* What the sample plugins of plugins/samples share: the proxy that calls   *)
(* them.  A plugin is one root context, which onConfigure sets up, and one  *)
(* context per HTTP stream, whose members live as long as the stream; the   *)
(* proxy runs one callback at a time and interleaves the streams.           *)
(*                                                                          *)
(* Headers are sequences of [name, value] records, as the header map calls  *)
(* of the proxy-wasm SDK show them: a missing header reads as the empty     *)
(* string.                                                                  *)
(***************************************************************************)
EXTENDS Naturals, Sequences, FiniteSets, SequencesExt, FiniteSetsExt

CONSTANT Streams    \* the HTTP streams of the proxy

ASSUME StreamsAssumption == IsFiniteSet(Streams)

Empty == ""     \* the empty string, and what a missing header reads as

-----------------------------------------------------------------------------
(* Loops over sequences, as recursive functions of the place they have come  *)
(* to: FoldLeft and SelectSeq in a form that can be proved about.            *)

\* Op is applied for each element of seq, from the first to the last.
ForEach(Op(_, _), base, seq) ==
    LET after[i \in 0..Len(seq)] ==
          IF i = 0 THEN base ELSE Op(after[i - 1], seq[i])
    IN  after[Len(seq)]

\* The elements of seq that are in S, in order.
Filter(seq, S) ==
    ForEach(LAMBDA kept, x : IF x \in S THEN Append(kept, x) ELSE kept, <<>>, seq)

-----------------------------------------------------------------------------
(* The header map.                                                          *)

Field(name, value) == [name |-> name, value |-> value]

Named(h, name) == Filter(h, {f \in Range(h) : f.name = name})

getHeader(h, name) ==
    IF Named(h, name) = <<>> THEN Empty ELSE Named(h, name)[1].value

removeHeader(h, name) == Filter(h, {f \in Range(h) : f.name # name})

addHeader(h, name, value) == Append(h, Field(name, value))

\* The first field of that name gets the value and the others go; a name that
\* is missing is added.
replaceHeader(h, name, value) ==
    IF Named(h, name) = <<>> THEN addHeader(h, name, value)
    ELSE LET first == Min({i \in DOMAIN h : h[i].name = name})
         IN  SubSeq(h, 1, first - 1) \o <<Field(name, value)>>
               \o removeHeader(SubSeq(h, first + 1, Len(h)), name)
=============================================================================
