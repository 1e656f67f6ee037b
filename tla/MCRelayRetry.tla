---------------------------- MODULE MCRelayRetry ----------------------------
EXTENDS RelayRetry

\* Group a has two priorities; b has two channels of one priority, with and without
\* weight, one of which it shares with a.
MCChannels == {1, 2, 3}
MCGroupsOf == <<{"a"}, {"a", "b"}, {"b"}>>
MCPriority == <<2, 1, 1>>
MCWeight == <<0, 1, 0>>
MCMultiKey == {2}
MCAutoGroups == <<"a", "b">>
=============================================================================
