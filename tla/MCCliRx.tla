------------------------------ MODULE MCCliRx -------------------------------
(***************************************************************************)
(* Model-checking instance of CliRx: one command, named by one character,  *)
(* and streams with every kind of line: too long with a rest that is a     *)
(* command, of several words, with blanks around or without any word, with *)
(* a NUL, empty, unknown and unfinished.                                   *)
(***************************************************************************)
EXTENDS CliRx

HelpName == <<"h">>

Lines ==
  {<<"h", "h", "h", "h", "h", "eol">>, <<"h", "blank", "h", "eol", "eol", "h">>,
   <<"blank", "h", "eol", "h", "h", "eol">>, <<"h", "nul", "h", "eol", "blank", "eol">>,
   <<"h", "eol", "nul", "eol", "h", "eol">>}
=============================================================================
