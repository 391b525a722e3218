--------------------------- MODULE MCLibeventServer ---------------------------
(***************************************************************************)
(* Instances of LibeventServer for TLC: the messages peers send.           *)
(***************************************************************************)
EXTENDS LibeventServer

\* A request to be answered and one not to be. Enough where only the control flow
\* matters.
ShortMessages == {<<"nul">>, <<"noreply", "nul">>}

\* A connection that only ever sends requests without reply.
NoreplyMessages == {<<"noreply", "nul">>}

\* Two-cell buffers: a short request, sent with and without its NUL; a long noreply
\* request without a NUL, whose "noreply" a short one does not overwrite, and one
\* with it; two read requests, one for more than can be registered; one message too
\* long for the buffer.
LayoutMessages ==
    {<<"nul">>, <<"text">>, <<"text", "noreply">>, <<"noreply", "nul">>,
     <<"head", "nul">>, <<"huge", "nul">>, <<"text", "text", "text">>}
=============================================================================
