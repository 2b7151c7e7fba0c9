--------------------------- MODULE MCRemoteFiles ---------------------------
(* Two versions; the first has a file, one in a folder, one in a folder of   *)
(* the folder, and one that is no part of a model.                           *)
EXTENDS RemoteFiles

MCObjects ==
    {<<"1", "xml">>, <<"1", "notes">>, <<"1", "sub", "xml">>, <<"1", "sub", "deep", "bin">>, <<"2", "xml">>}
MCStores == {MCObjects, {<<"1", "xml">>, <<"2", "xml">>}}
MCAccepted == {"xml", "bin"}
=============================================================================
