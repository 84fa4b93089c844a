---------------------------- MODULE HttpHeaders ----------------------------
(***************************************************************************)
(* What the HTTP proxy does with headers: src/src/http_proxy.rs.           *)
(*                                                                         *)
(* A header is a name and a value.  Names compare without case, so they    *)
(* are written in lower case here.  Blank stands for the values of white   *)
(* space only or with a control character, NonAscii for those that         *)
(* tiny_http cannot represent.                                             *)
(***************************************************************************)
EXTENDS Observer

CONSTANTS Blank, NonAscii,
          Extensions          \* the names that start with "x-"

RoutingNames == {"mcp-protocol-version", "mcp-method", "mcp-name"}

HopByHop ==
    {"connection", "keep-alive", "proxy-authenticate", "proxy-authorization",
     "te", "trailer", "transfer-encoding", "upgrade"}

(* The members of s that are in S, in their order.                         *)
Keep(s, S) ==
    LET step(kept, e) == IF e \in S THEN Append(kept, e) ELSE kept
    IN  FoldLeft(step, <<>>, s)

Named(headers, name) == Keep(headers, { h \in ToSet(headers) : h.name = name })

(* Mistakes for the mutants: every header is forwarded; of several values  *)
(* the first is taken.                                                     *)
ShouldForwardAny(name) == name # "content-length"

ShouldForwardRequestHeader(name) ==
    name \notin {"host", "content-length"} /\ name \notin HopByHop

ShouldForwardResponseHeader(name) ==
    name # "content-length" /\ name \notin HopByHop

-----------------------------------------------------------------------------
AllowlistedFirst(headers, name) ==
    IF Named(headers, name) = <<>> THEN None ELSE Named(headers, name)[1].value

(* allowlisted_header_value: the loop returns at the second header of the  *)
(* name, and at the first that says nothing.                               *)
AllowlistedHeaderValue(headers, name) ==
    LET step(found, h) ==
            IF found.returned \/ h.name # name THEN found
            ELSE IF found.value # None \/ h.value = Blank
            THEN [returned |-> TRUE, value |-> None]
            ELSE [found EXCEPT !.value = h.value]
    IN  FoldLeft(step, [returned |-> FALSE, value |-> None], headers).value

CollectRequestRoutingMetadata(headers) ==
    [name \in RoutingNames |-> AllowlistedHeaderValue(headers, name)]

NoRouting == [name \in RoutingNames |-> None]

(* ureq's set takes the place of earlier headers of the name, unless it is *)
(* that of an extension.                                                   *)
SetHeader(headers, h) ==
    Append(IF h.name \in Extensions THEN headers
           ELSE Keep(headers, { o \in ToSet(headers) : o.name # h.name }), h)

UpstreamHeaders(headers) ==
    LET step(sent, h) ==
            IF ShouldForwardRequestHeader(h.name) THEN SetHeader(sent, h) ELSE sent
    IN  FoldLeft(step, <<>>, headers)

(* ureq names a header as often as it is there, and all() returns each of  *)
(* its values: what comes twice is passed on four times.                   *)
CollectResponseHeaders(headers) ==
    LET step(all, h) ==
            IF ShouldForwardResponseHeader(h.name)
            THEN all \o Keep(Named(headers, h.name),
                             { o \in ToSet(headers) : o.value # NonAscii })
            ELSE all
    IN  FoldLeft(step, <<>>, headers)
=============================================================================
