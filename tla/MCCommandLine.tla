---------------------------- MODULE MCCommandLine ---------------------------
(***************************************************************************)
(* Instances of CommandLine: every command line of a few pieces, each a    *)
(* word or an option with its value, for each way to build the wrapper.    *)
(***************************************************************************)
EXTENDS CommandLine

CONSTANT MaxPieces

MCNative ==
  "a.c" :> "c" @@ "a.cc" :> "c++" @@ "b.cc" :> "c++" @@ "m.ll" :> "ir" @@ "s.S" :> "assembler"
  @@ "we\"ird.c" :> "c" @@ "r.c" :> "c" @@ "o.o" :> "object" @@ "-lz" :> "object" @@ "-" :> "none"
  @@ "declaration.c" :> "c" @@ "runtime.c" :> "c" @@ "runtime.o" :> "object"
  @@ "a.ll" :> "ir" @@ "b.ll" :> "ir" @@ "r.ll" :> "ir" @@ "declaration.ll" :> "ir"
MCGenerated == {"a.ll", "b.ll", "r.ll", "declaration.ll", "runtime.o"}
MCValued == {"-x", "-o", "-MT", "-D", "-Xclang", "--language", "--output"}
MCOptions ==
  MCValued \cup StdC \cup StdCxx \cup (Internal \ {"c"})
  \cup {"--", "-c", "-E", "-S", "-D\\\"", "-DX=$Y \\", "--no-warnings", "-fPIC"}
MCResponse == "@r" :> <<"r.c", "-c">> @@ "@s" :> <<"-std=c11">>
MCArgs ==
  DOMAIN MCNative \cup MCOptions \cup Added \cup Internal \cup {"@r", "@s", "out", "c", "none"}
MCLl == [f \in MCArgs |->
           CASE f \in {"a.c", "a.cc"} -> "a.ll" [] f = "b.cc" -> "b.ll" [] f = "r.c" -> "r.ll"
             [] f = "declaration.c" -> "declaration.ll" [] OTHER -> f]

MCText == [a \in MCArgs |->
             CASE a = "we\"ird.c"   -> <<"we", "quote", "ird.c">>
               [] a = "-D\\\""      -> <<"-D", "backslash", "quote">>
               [] a = "-DX=$Y \\"   -> <<"-DX=", "dollar", "Y", "backtick", "space", "backslash">>
               [] OTHER             -> <<a>>]
MCChars == UNION {ToSet(MCText[a]) : a \in MCArgs} \cup Special \cup {"space"}

Pieces ==
  {<<"a.c">>, <<"a.cc">>, <<"b.cc">>, <<"m.ll">>, <<"s.S">>, <<"we\"ird.c">>, <<"o.o">>, <<"-lz">>, <<"-">>,
   <<"-x", "c">>, <<"-x", "none">>, <<"-std=c11">>, <<"-std=c++11">>, <<"-c">>, <<"-E">>,
   <<"-o", "out">>, <<"-MT", "a.c">>, <<"-MT", "-std=c11">>, <<"--">>,
   <<"@r">>, <<"@s">>, <<"-D\\\"">>, <<"-DX=$Y \\">>}

MCCommands == {FlattenSeq(s) : s \in UNION {[1 .. k -> Pieces] : k \in 1 .. MaxPieces}}

MCBuilds == [cxx : BOOLEAN, ndk : {FALSE}, hooks : BOOLEAN] \cup [cxx : {FALSE}, ndk : {TRUE}, hooks : {TRUE}]
=============================================================================
