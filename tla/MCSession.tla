------------------------------ MODULE MCSession -----------------------------
(* The default MIB and one of the music plugin, below the same branch.     *)
EXTENDS Session, TLC

CONSTANTS fdbfs, plugins, forthpri, music

forthpriMib == <<fdbfs, plugins, forthpri>>
musicMib    == <<fdbfs, plugins, music>>

MCMibs == {forthpriMib, musicMib}
MCPluginMibs == <<musicMib>>

(* A directory of two plugins between one without plugins and one with one *)
(* more; and a directory that is missing.                                  *)
MCPaths == {<<<<"broken">>, <<"plain", "music">>, <<"other", "plain">>>>, <<None>>}

Symmetry == Permutations(Proc)
=============================================================================
