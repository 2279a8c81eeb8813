---------------------------- MODULE ShellQuoting ----------------------------
(***************************************************************************)
(* A command line goes to popen() as one text (Arguments::command() in     *)
(* common/arguments.cc), and the shell takes it apart again.               *)
(***************************************************************************)
EXTENDS Integers, SequencesExt

CONSTANTS
  Args,   (* the words of a command line                              *)
  Chars,  (* characters, or pieces of words that mean nothing special *)
  Text    (* Text[a] are the characters of a, in their order          *)

(* The characters that keep a meaning between double quotes. *)
Special == {"quote", "dollar", "backslash", "backtick"}

ASSUME TextAssumption ==
  /\ Special \cup {"space"} \subseteq Chars
  /\ Text \in [Args -> Seq(Chars)]
  /\ \A a, b \in Args : Text[a] = Text[b] => a = b

(* A mutant of Escape: no backslash before a backslash. *)
EscapeNotItself(str) ==
  FlattenSeq([i \in DOMAIN str |->
                IF str[i] \in Special \ {"backslash"} THEN <<"backslash", str[i]>> ELSE <<str[i]>>])

Escape(str) ==
  FlattenSeq([i \in DOMAIN str |->
                IF str[i] \in Special THEN <<"backslash", str[i]>> ELSE <<str[i]>>])

(* command(): each word between double quotes, and a space behind it. *)
Command(args) ==
  FlattenSeq([i \in DOMAIN args |-> <<"quote">> \o Escape(Text[args[i]]) \o <<"quote", "space">>])
-----------------------------------------------------------------------------
(***************************************************************************)
(* The shell.  Between double quotes a backslash takes the meaning of a    *)
(* special character behind it and is a backslash before any other; a      *)
(* dollar or a backtick that keeps its meaning starts an expansion, whose  *)
(* outcome is not the text.                                                *)
(***************************************************************************)
Outside == [words |-> <<>>, word |-> <<>>, at |-> "outside", expands |-> FALSE]

ReadPlain(s, c) ==
  CASE c = "space" -> IF s.at = "word"
                      THEN [s EXCEPT !.words = Append(@, s.word), !.word = <<>>, !.at = "outside"]
                      ELSE s
    [] c = "quote" -> [s EXCEPT !.at = "quoted"]
    [] OTHER       -> [s EXCEPT !.word = Append(@, c), !.at = "word"]

ReadQuoted(s, c) ==
  CASE c = "quote"                  -> [s EXCEPT !.at = "word"]
    [] c = "backslash"              -> [s EXCEPT !.at = "escape"]
    [] c \in {"dollar", "backtick"} -> [s EXCEPT !.expands = TRUE]
    [] OTHER                        -> [s EXCEPT !.word = Append(@, c)]

ReadEscaped(s, c) ==
  [s EXCEPT !.word = @ \o IF c \in Special THEN <<c>> ELSE <<"backslash", c>>, !.at = "quoted"]

Read(s, c) ==
  CASE s.at = "quoted" -> ReadQuoted(s, c)
    [] s.at = "escape" -> ReadEscaped(s, c)
    [] OTHER           -> ReadPlain(s, c)

(* The words the shell finds, and whether they are all words it was meant to find. *)
ShellReads(text) ==
  LET read[i \in 0 .. Len(text)] == IF i = 0 THEN Outside ELSE Read(read[i - 1], text[i])
  IN read[Len(text)]

Understood(text) ==
  LET read == ShellReads(text)
  IN /\ read.at = "outside" /\ ~read.expands
     /\ \A i \in DOMAIN read.words : \E a \in Args : Text[a] = read.words[i]

(* The arguments the program gets that the shell starts. *)
ShellArgs(text) ==
  LET words == ShellReads(text).words
  IN [i \in DOMAIN words |-> CHOOSE a \in Args : Text[a] = words[i]]
=============================================================================
