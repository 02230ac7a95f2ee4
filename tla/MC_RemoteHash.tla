---------------------------- MODULE MC_RemoteHash ----------------------------
EXTENDS RemoteHash

\* Two config keys in sorted order.
MCKeyOrder == <<"bucket", "key">>

\* Plain values, and one holding a space and a colon as a path or a
\* connection string can.
MCValues == {"b", "s", "b key:s"}

=============================================================================
