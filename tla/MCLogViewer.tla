---------------------------- MODULE MCLogViewer ----------------------------
\* Payloads of two lengths and none; one of them holds the magic.
EXTENDS LogViewer

MCPayloads == {<< >>, <<MAGIC0, MAGIC1>>, <<1, 0>>}
=============================================================================
