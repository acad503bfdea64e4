------------------------ MODULE MCInscribedScripts ------------------------
(***************************************************************************)
(* Scripts of up to three parts for TLC.  Values are one byte or two, but  *)
(* for the bodies that need the longer pushes.                             *)
(***************************************************************************)
EXTENDS InscribedScripts

MCMagic == <<111, 114, 100>>        \* b"ord"

Long(n) == [k \in 1..n |-> 120]

\* Inscriptions: the usual one; a body whose bytes begin an envelope of their own;
\* a field that comes twice, the second time not UTF-8, and no body; tags that
\* are unknown or longer than a byte; bodies that need the longer pushes; an
\* empty body.
MCInscriptions ==
  { Inscription(<< <<1, <<106>> >>, <<7, <<98>> >>, <<3, <<171>> >> >>, << <<120>>, <<121, 122>> >>),
    Inscription(<< <<7, <<98>> >> >>, << <<0, 99>>, <<0, 99, 3, 111, 114, 100, 104>> >>),
    Inscription(<< <<7, <<98>> >>, <<2, <<0, 99>> >>, <<7, <<200>> >> >>, <<>>),
    Inscription(<< <<9, <<104>> >>, <<5, <<104>> >> >>, << Long(80) >>),
    Inscription(<< <<1, <<106>> >> >>, << Long(256), <<120>> >>),
    Inscription(<<>>, << <<>> >>) }

\* Other code, each part with an opcode at its end that is no push: a key and
\* OP_CHECKSIG; a conditional without data; one with other data; an envelope that
\* ends within a field; one with a tag of two bytes and a body that is not ended;
\* the four-byte push of a length.
MCCode ==
  { Code(<<1, 120, 172>>),
    Code(<<0, 99, 81, 104>>),
    Code(<<0, 99, 1, 120, 104>>),
    Code(<<0, 99, 3, 111, 114, 100, 1, 7, 104>>),
    Code(<<0, 99, 3, 111, 114, 100, 2, 7, 7, 1, 98, 0, 1, 120, 172>>),
    Code(<<78, 2, 0, 0, 0, 0, 99, 172>>) }

\* Ends of a script: nothing; the first opcode; both; pushes of each kind that are
\* cut short in their data or in their length; the end within the fields and
\* within the body.
MCTails ==
  { <<>>, <<0>>, <<0, 99>>, <<0, 99, 3, 111>>, <<0, 99, 76>>, <<0, 99, 76, 2, 0>>,
    <<0, 99, 77, 1>>, <<0, 99, 78, 1, 0, 0>>, <<0, 99, 78, 1, 0, 0, 0>>,
    <<0, 99, 3, 111, 114, 100>>, <<0, 99, 3, 111, 114, 100, 0, 1, 120>>,
    <<0, 99, 3, 111, 114, 100, 0, 77, 1>> }

MCParts == MCInscriptions \cup MCCode

MCWritings == UNION {[1..n -> MCParts] : n \in 0..3}

\* Code that ends where an envelope would have gone on: a conditional around the
\* inscription, and a push in one.
MCOpenCode == { Code(<<0, 99>>), Code(<<0, 99, 1, 120>>) }

MCOpenWritings == UNION {[1..n -> MCParts \cup MCOpenCode] : n \in 0..2}

MCScripts == {Bytes(ps) \o t : ps \in Writings, t \in Tails}
=============================================================================
