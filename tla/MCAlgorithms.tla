---------------------------- MODULE MCAlgorithms -----------------------------
(* The sequential parts of the program, each on its own: one run is about a   *)
(* script (ScriptLexer), a request file (RequestFile), the text of a request  *)
(* (RequestText), a directory (NaturalOrder), an environment (Environments)   *)
(* or an exchange (Redirects), and what it is not about is empty and rests.   *)
EXTENDS ScriptLexer, RequestFile, RequestText, NaturalOrder, Environments, Redirects

VARIABLE subject

allVars == <<subject, lexVars, fileVars, textVars, sortVars, envVars, vars>>

Nothing == [chars |-> {}, length |-> 0]

(* Characters that interact, in words of a length that lets them: brackets of *)
(* three levels that close each other, comments that become long or do not,   *)
(* escapes before quotes, braces in all of these.                             *)
MCInputs == { [chars |-> {"[", "]", "=", "}"}, length |-> 8],
              [chars |-> {"-", "[", "]", "\n", "}"}, length |-> 7],
              [chars |-> {"\"", "'", "\\", "\n", "}"}, length |-> 6],
              [chars |-> {"{", "}", "-", "[", "\n", "\""}, length |-> 5], Nothing }

(* A delimiter takes four characters, so these hold one and what is around it. *)
MCFiles == { [chars |-> {"#", "\n", "x", "\\", " "}, length |-> 7],
             [chars |-> {"#", "\n", "x", Named, Inline, " "}, length |-> 6], Nothing }

NoText == [prefix |-> <<>>, chars |-> {}, length |-> 0]

(* Whole requests from the start, headers and what follows them, two headers. *)
MCTexts == {
  [prefix |-> <<>>, chars |-> {"u", "x", " ", "\n", "\r"}, length |-> 5],
  [prefix |-> <<"u", "\n">>, chars |-> {"h", ":", " ", "\n", "\r"}, length |-> 6],
  [prefix |-> <<"u", "\n", "h", ":">>, chars |-> {"x", "h", "a", ":", " ", "\n"}, length |-> 5],
  NoText }

Strings(S, n) == UNION {[1 .. k -> S] : k \in 1 .. n}

(* Digits, a byte before the digits and one after them: 2.x, 02.x and 10.x,   *)
(* numbers that differ in leading zeros only, and some beyond MaxInt.         *)
MCNames == Strings({0, 1, 10}, 3) \cup Strings({2, 10, -1}, 2) \cup {<<0, 2>>, <<0, 2, 10>>}

MCPaths == Strings({"a", "b"}, 3)

MCKeys == {"a", "b"}
MCLeaves == 2 .. 11

Leaf(x) == [leaf |-> x]
Fields(f) == [k \in MCKeys |-> IF k \in DOMAIN f THEN f[k] ELSE NoValue]
Object(f) == [map |-> Fields(f)]
Nil == <<>>

MCEnvFiles == {
  Fields(Nil), Fields([b |-> Object(Nil)]),
  Fields([a |-> Object([a |-> Leaf(2)]), b |-> Leaf(3)]),
  Fields([a |-> Object([b |-> Leaf(4)])]),
  Fields([a |-> Object([a |-> Object([b |-> Leaf(5)])])]),
  Fields([a |-> Object([a |-> Object(Nil), b |-> Object([a |-> Leaf(6)])])]) }

MCSettings == {
  [path |-> <<"a">>, value |-> Leaf(7)],
  [path |-> <<"a", "a">>, value |-> Leaf(8)],
  [path |-> <<"a", "b", "a">>, value |-> Leaf(9)],
  [path |-> <<"a">>, value |-> Object([b |-> Leaf(10), a |-> Object(Nil)])],
  [path |-> <<"a", "b">>, value |-> Object([b |-> Leaf(11)])] }

(* Limits below, at and above the ten of the default client. *)
MCLimits == {0, 1, 2, 5, 9, 10, 12}
MCChains == 0 .. 13

AllInit ==
  /\ subject \in {"script", "file", "request", "directory", "env", "exchange"}
  /\ LexInit /\ (subject # "script" => input = Nothing)
  /\ FileInit /\ (subject # "file" => bound = Nothing)
  /\ TextInit /\ (subject # "request" => kind = NoText)
  /\ IF subject = "directory" THEN SortInit ELSE entries = <<>> /\ ordered = 0
  /\ EnvInit /\ (subject # "env" => target = "env")
  /\ IF subject = "exchange" THEN Init
     ELSE limit = 0 /\ chain = 0 /\ cached = FALSE /\ made = 1 /\ outcome = "answer"

AllNext ==
  /\ UNCHANGED subject
  /\ \/ /\ subject = "script" /\ LexNext
        /\ UNCHANGED <<fileVars, textVars, sortVars, envVars, vars>>
     \/ /\ subject = "file" /\ FileNext
        /\ UNCHANGED <<lexVars, textVars, sortVars, envVars, vars>>
     \/ /\ subject = "request" /\ TextNext
        /\ UNCHANGED <<lexVars, fileVars, sortVars, envVars, vars>>
     \/ /\ subject = "directory" /\ SortNext
        /\ UNCHANGED <<lexVars, fileVars, textVars, envVars, vars>>
     \/ /\ subject = "env" /\ EnvNext
        /\ UNCHANGED <<lexVars, fileVars, textVars, sortVars, vars>>
     \/ /\ subject = "exchange" /\ Next
        /\ UNCHANGED <<lexVars, fileVars, textVars, sortVars, envVars>>

AllSpec == AllInit /\ [][AllNext]_allVars
=============================================================================
