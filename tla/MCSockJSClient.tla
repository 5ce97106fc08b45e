--------------------------- MODULE MCSockJSClient ---------------------------
(***************************************************************************)
(* Four browsers for TLC: one with everything but XDomainRequest, Internet   *)
(* Explorer 8, an Opera that streams only out of an iframe, and a browser    *)
(* that can do nothing but load scripts.                                    *)
(***************************************************************************)
EXTENDS SockJSClient

MCBrowsers ==
  {Protocols \ {"xdr-streaming", "xdr-polling"},
   {"xdr-streaming", "xdr-polling", "iframe-htmlfile", "iframe-xhr-polling", "jsonp-polling"},
   Iframe \cup Script,
   Script}
=============================================================================
