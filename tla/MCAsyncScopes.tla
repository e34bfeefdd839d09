---------------------------- MODULE MCAsyncScopes ----------------------------
\* Operations on two pools of one thread each.
EXTENDS AsyncScopes, TLC

CONSTANTS main, net, t1, t2

MCSchedulers == {main, net}
MCThreads == {t1, t2}
MCThreadsOf == main :> {t1} @@ net :> {t2}

=============================================================================
