----------------------------- MODULE MCRequests -----------------------------
(***************************************************************************)
(* Two calls of Handle at a time, for model checking: a directory d with a *)
(* sensitive file and a directory s, which is sensitive in e but not in d, *)
(* and a file g that can become e and e g.                                 *)
(***************************************************************************)
EXTENDS Requests

MCKeys == <<<<"d">>, <<"d", "k">>, <<"d", "s">>, <<"e">>, <<"e", "s">>, <<"g">>>>

MCMatched == {<<"d", "k">>, <<"e", "s">>}

MCDisk == (<<"d">> :> "dir") @@ (<<"d", "k">> :> "file") @@ (<<"d", "s">> :> "dir")
            @@ (<<"e">> :> "absent") @@ (<<"e", "s">> :> "absent") @@ (<<"g">> :> "file")

On(op, p) == Request(op, p, p)
Rename(from, to) == Request("rename", <<from>>, <<to>>)

MCRequested ==
  {Rename("g", "e"), Rename("e", "g"), Rename("d", "e"),
   On("write", <<"e">>), On("list_dir", <<"d">>), On("read", <<"d", "k">>)}

MCEdits == {On("delete", <<"d", "k">>), On("delete", <<"d", "s">>)}
=============================================================================
