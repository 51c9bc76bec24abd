---------------------------- MODULE MCBZip2Tool ----------------------------
(***************************************************************************)
(* The bzip2 command called in the ways that its options, the names and    *)
(* the contents of the files tell apart.                                   *)
(***************************************************************************)
EXTENDS BZip2Tool

File(kind, data) == [kind |-> kind, linked |-> FALSE, by |-> "user", data |-> data]
A == File("regular", <<"a1", "a2">>)
B == File("regular", <<"b1">>)
Zipped(data) == File("regular", <<"BZh">> \o data \o <<"end">>)
Terminals == Stdin :> File("terminal", <<"t1">>) @@ Stdout :> File("terminal", <<>>)
Pipes(data) == Stdin :> File("pipe", data) @@ Stdout :> File("pipe", <<>>)

a == <<"a">>
b == <<"b">>
az == <<"a", ".bz2">>
bz == <<"b", ".bz2">>
LongName == <<"far too long">>
MCLongNames == {LongName}
MCChunks == {"BZh", "end", "!", "a1", "a2", "b1", "t1", "junk", "old", "new"}
Run(prog, argv, disk0) == [prog |-> prog, env |-> <<>>, argv |-> argv, disk |-> disk0]

Packing ==
  { Run("bzip2", <<a>>, a :> A @@ Terminals),
    Run("bzip2", <<<<"-", "9", "k">>, a, b>>, a :> A @@ b :> B @@ Terminals),
    Run("bzip2", <<<<"-", "f">>, a>>, a :> A @@ az :> B @@ Terminals),
    Run("bzip2", <<a, b>>, a :> A @@ az :> B @@ b :> File("directory", <<>>) @@ Terminals),
    Run("bzip2", <<a, bz>>, a :> [A EXCEPT !.linked = TRUE] @@ az :> B @@ bz :> B @@ Terminals),
    Run("bzip2", <<a>>, a :> [A EXCEPT !.linked = TRUE] @@ Terminals),
    Run("bzip2", <<a, b>>, a :> File("symlink", <<"a1">>) @@ Terminals),
    [Run("bzip2", <<a>>, a :> File("symlink", <<"a1">>) @@ Terminals) EXCEPT !.env = <<<<"-", "f">>>>],
    Run("bzip2", <<<<"-", "c">>, a, b>>, a :> A @@ b :> B @@ Pipes(<<>>)),
    Run("bzip2", <<<<"-", "c">>, a>>, a :> A @@ Terminals),
    Run("bzip2", <<a, LongName, b>>, a :> A @@ LongName :> A @@ b :> B @@ Terminals),
    Run("bzip2", <<<<"-", "c">>>>, Pipes(<<"a1", "a2">>)),
    Run("bzip2", <<>>, Terminals),
    Run("bzip2", <<<<"--">>, <<"-", "c">>>>, <<"-", "c">> :> B @@ Terminals) }

Unpacking ==
  { Run("bunzip2", <<az>>, az :> Zipped(<<"a1", "a2">>) @@ Terminals),
    Run("bzip2", <<<<"--", "decompress">>, <<"--", "keep">>, <<"a", ".tbz2">>>>,
        <<"a", ".tbz2">> :> File("regular", Zipped(<<"a1">>).data \o Zipped(<<"a2">>).data) @@ Terminals),
    Run("bunzip2", <<a, az>>, a :> Zipped(<<"a1">>) @@ az :> Zipped(<<"b1">>) @@ Terminals),
    Run("bunzip2", <<az>>, az :> File("regular", Zipped(<<"a1">>).data \o <<"junk">>) @@ Terminals),
    Run("bunzip2", <<<<"-", "f">>, az, bz>>, az :> File("regular", Zipped(<<"a1">>).data \o <<"junk">>)
                                             @@ bz :> B @@ a :> File("regular", <<"old">>) @@ Terminals),
    Run("bunzip2", <<az, bz>>, az :> A @@ bz :> Zipped(<<"b1">>) @@ Terminals),
    Run("bunzip2", <<az, bz>>, az :> File("regular", <<"BZh", "a1", "!", "end">>) @@ bz :> Zipped(<<"b1">>) @@ Terminals),
    Run("bunzip2", <<az>>, az :> File("regular", <<"BZh", "a1">>) @@ Terminals),
    Run("bunzip2", <<az>>, az :> File("regular", <<>>) @@ Terminals),
    Run("bzcat", <<az, b, bz>>, az :> Zipped(<<"a1">>) @@ b :> B @@ bz :> Zipped(<<"b1">>) @@ Pipes(<<>>)),
    Run("bzcat", <<<<"-", "f">>, az, b>>, az :> Zipped(<<"a1">>) @@ b :> B @@ Terminals),
    Run("bzcat", <<>>, Pipes(Zipped(<<"a1", "a2">>).data \o <<"junk">>)),
    Run("bunzip2", <<<<"-", "f">>>>, Pipes(<<"a1", "a2">>)),
    Run("bunzip2", <<<<"-", "f">>>>, Stdin :> A @@ Stdout :> File("regular", <<>>)),
    Run("bunzip2", <<<<"-", "f">>, az>>, az :> File("pipe", <<"a1", "a2">>) @@ Terminals),
    Run("bunzip2", <<>>, Terminals) }

Others ==
  { Run("bzip2", <<<<"-", "t">>, az, bz>>, az :> Zipped(<<"a1">>) @@ bz :> File("regular", Zipped(<<"b1">>).data \o <<"junk">>) @@ Terminals),
    Run("bzip2", <<<<"--", "test">>, az, bz>>, az :> A @@ bz :> File("regular", <<"BZh", "!">>) @@ Terminals),
    Run("bzip2", <<<<"-", "t">>>>, Pipes(Zipped(<<"a1">>).data)),
    Run("bzip2", <<<<"-", "c", "t">>, az>>, az :> Zipped(<<"a1">>) @@ Terminals),
    Run("bzip2", <<<<"-", "x">>, a>>, a :> A @@ Terminals),
    Run("bzip2", <<<<"--", "version">>, <<"--", "oops">>, a>>, a :> A @@ Terminals) }

Calls == Packing \cup Unpacking \cup Others
=============================================================================
