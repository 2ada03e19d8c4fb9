---------------------------- MODULE MCHttpClient ----------------------------
(***************************************************************************)
(* The responses of a small server: every framing, bodies of up to three   *)
(* bytes in up to two chunks, up to two trailer lines.  A byte of a body   *)
(* may look like a digit or be a line break.  URLs have a host's name or   *)
(* address, and delimiters in parts where they mean nothing.               *)
(***************************************************************************)
EXTENDS HttpClient

Bodies == {<<>>, <<<<"x">>>>, <<<<"x", "y">>, <<"z">>>>, <<<<"1">>, <<"x">>>>,
           <<<<"CR", "LF">>, <<"x">>>>, <<<<"x", "CR", "LF">>>>}

MCUrls ==
    [protocol : {<<"http">>},
     host : {<<"host">>, <<"1">>, <<"[", "fe80", ":", ":", "1", "]">>},
     port : {<<>>, <<"80">>},
     path : {<<>>, <<"/">>, <<"/", "a", ":", "80", "/", "b">>},
     query : {<<>>, <<"id">>, <<"/", "?", ":">>},
     ref : {<<>>, <<"1234">>, <<"a", "?", "/", "/", "b">>}]

Answers == [framing : {"length", "chunked", "both", "none"}, chunks : Bodies, trailers : 0 .. 2]
=============================================================================
