--------------------------- MODULE RequestSigning ---------------------------
(***************************************************************************)
(* A service request and its AWS V4 signature (RequestInfo.c,              *)
(* AwsV4Signer.c): the sorted header list that a request carries, the two  *)
(* ways of signing it (an Authorization header, or query parameters of the *)
(* URL), and the list of headers handed to curl.                           *)
(*                                                                         *)
(* Hashes are perfect: a signature is the canonical request that was       *)
(* hashed.  Whoever receives the request puts together the canonical       *)
(* request of what it received and compares; that is the specification     *)
(* the signer has to meet (Verifies).                                      *)
(***************************************************************************)
EXTENDS Integers, Sequences, FiniteSets

CONSTANTS
  MAX_REQUEST_HEADER_COUNT,   \* 200 in the code
  MAX_URI_CHAR_LEN,           \* 10000 in the code
  MaxAllocations,   \* bound on the headers callers allocate, per mode
  CallerHeaders,    \* names of headers that callers set
  Values,           \* their values
  Hosts, Tokens,    \* hosts of URLs, and session tokens
  UnfitNames,       \* names and values that are empty, or as long as
  UnfitValues,      \* MAX_REQUEST_HEADER_NAME_LEN, .._VALUE_LEN or longer
  Queries,          \* query parameters of URLs to sign: sequences of
                    \* [name, value], both sequences of characters
  UrlStart,         \* the bytes of a URL in front of its query, by its path
  SignatureLen      \* the bytes of "&X-Amz-Signature=..."

VARIABLES
  phase,     \* none, built, signed, cut, failed, sent, freed
  mode,      \* header or query: how the request is signed
  url,       \* [host, path, params, bare]; NoText where the URL has none,
             \* bare when a parameter has no '='.  Once signed in the query,
             \* its values are encoded
  body,      \* the request has a body (no: it streams)
  token,     \* the session token of the credentials, or NoText
  list,      \* the headers: [entries, live, next], live the allocations and
             \* next the one to come
  signature, \* the string that was signed, and the names signed
  wire       \* what curl sends

vars == <<phase, mode, url, body, token, list, signature, wire>>

\* the names in use, in the order of STRCMPI
AlphaOrder ==
  <<"Authorization", "connection", "content-length", "content-type", "host",
    "transfer-encoding", "user-agent", "X-Amz-Date", "x-amz-security-token",
    "x-amzn-fragment-acknowledgment-required", "x-amzn-fragment-timecode-type",
    "x-amzn-iot-thingname", "x-amzn-producer-start-timestamp", "x-amzn-stream-name">>
HeaderNames == {AlphaOrder[i] : i \in DOMAIN AlphaOrder}
Rank(name) == CHOOSE i \in DOMAIN AlphaOrder : AlphaOrder[i] = name

NoText == "none"
Paths == {NoText, "/path", "/long/path"}
Nothing == [signed |-> <<>>, signedHeaders |-> <<>>]
EmptyList == [entries |-> <<>>, live |-> {}, next |-> 1]

EQUALS == 5       \* '=', where the name of a parameter ends
Params == [name : Seq(Int), value : Seq(Int)]

ASSUME SigningAssumption ==
  /\ MAX_REQUEST_HEADER_COUNT \in Nat /\ MAX_URI_CHAR_LEN \in Nat
  /\ MaxAllocations \in [{"header", "query"} -> Nat]
  /\ CallerHeaders \subseteq HeaderNames \cup UnfitNames
  /\ Queries \subseteq Seq(Params)
  /\ \A q \in Queries : \A i \in DOMAIN q :
       \A k \in DOMAIN q[i].name : q[i].name[k] # EQUALS
  /\ UrlStart \in [Paths -> Nat] /\ SignatureLen \in Nat

\* The members of a finite set in the order of "before", pairs of members:
\* each stands behind as many as come before it.
Ahead(S, before, x) == {y \in S : <<y, x>> \in before}
InOrder(S, before) ==
  [k \in 1..Cardinality(S) |->
     CHOOSE x \in S : Cardinality(Ahead(S, before, x)) = k - 1]

First(S) == CHOOSE i \in S : \A j \in S : i <= j

-----------------------------------------------------------------------------
(* The header list.                                                        *)

Size(l) == Len(l.entries)

\* createRequestHeader refuses what is empty or too long
Fit(name, value) == name \notin UnfitNames /\ value \notin UnfitValues

createRequestHeader(l, name, value) == [name |-> name, value |-> value, id |-> l.next]

\* mutant: a header goes to the end of the list
PositionAtEnd(entries, name) == Len(entries)

\* in front of the first greater one, or at the end
Position(entries, name) ==
  LET greater == {i \in DOMAIN entries : Rank(entries[i].name) > Rank(name)}
  IN IF greater = {} THEN Len(entries) ELSE First(greater) - 1

InsertAfter(entries, k, h) ==
  SubSeq(entries, 1, k) \o <<h>> \o SubSeq(entries, k + 1, Len(entries))

\* a full list refuses, and createRequestHeader may; a name that is there
\* already is added once more
setRequestHeader(l, name, value) ==
  IF Size(l) >= MAX_REQUEST_HEADER_COUNT \/ ~Fit(name, value) THEN l
  ELSE [entries |-> InsertAfter(l.entries, Position(l.entries, name),
                                createRequestHeader(l, name, value)),
        live |-> l.live \cup {l.next},
        next |-> l.next + 1]

\* a run of up to four setRequestHeader calls, [name, value] pairs, that ends
\* with the first one refused
AllFit(hs, k) == \A j \in 1..k : Fit(hs[j].name, hs[j].value)
SetAll(l, hs) ==
  LET Set(m, k) ==
        IF k > Len(hs) \/ ~AllFit(hs, k) THEN m
        ELSE setRequestHeader(m, hs[k].name, hs[k].value)
  IN  Set(Set(Set(Set(l, 1), 2), 3), 4)

Fits(l, hs) ==
  /\ Size(l) + Len(hs) <= MAX_REQUEST_HEADER_COUNT
  /\ AllFit(hs, Len(hs))

Named(entries, name) == {i \in DOMAIN entries : entries[i].name = name}

RemoveIndex(entries, i) ==
  SubSeq(entries, 1, i - 1) \o SubSeq(entries, i + 1, Len(entries))

\* mutant: the node is deleted and the header in it forgotten
removeRequestHeaderLeaks(l, name) ==
  IF Named(l.entries, name) = {} THEN l
  ELSE LET i == First(Named(l.entries, name))
       IN [l EXCEPT !.entries = RemoveIndex(@, i)]

\* The header found is freed with its node.  When there is none, the one
\* looked at last, the end of the list, is freed and stays in the list
removeRequestHeader(l, name) ==
  IF Named(l.entries, name) # {}
  THEN LET i == First(Named(l.entries, name))
       IN [l EXCEPT !.entries = RemoveIndex(@, i),
                    !.live = @ \ {l.entries[i].id}]
  ELSE IF l.entries = <<>> THEN l
  ELSE [l EXCEPT !.live = @ \ {l.entries[Size(l)].id}]

removeRequestHeaders(l) ==
  [l EXCEPT !.entries = <<>>,
            !.live = @ \ {l.entries[i].id : i \in DOMAIN l.entries}]

-----------------------------------------------------------------------------
(* Canonical queries.  Characters are codes in the order of ASCII; the     *)
(* value of a parameter is encoded, its name is not.  An escape "%XY" is   *)
(* one code of its own: it takes three bytes, and it sorts as its '%' does, *)
(* below all that is not escaped, and among escapes as its XY does.        *)

DASH == 2         \* '-'; like '.', digits and '_' at their places unreserved
SLASH == 3        \* '/'
Unreserved(c) == c = DASH \/ c >= 6

Escape(c) == c - 6
Unescape(e) == e + 6
IsEscape(e) == e < 0

EncodedChar(c) == IF Unreserved(c) THEN c ELSE Escape(c)

Encoded(v) == [i \in DOMAIN v |-> EncodedChar(v[i])]

\* the bytes written before the i-th character
Written(v, i) ==
  (i - 1) + 2 * Cardinality({j \in 1..(i - 1) : ~Unreserved(v[j])})

\* "3 times the size of the allocation to account for max bloat"
Bloated(p) == Len(p.name) + 1 + 3 * Len(p.value) + 1

\* mutant: the buffer is as long as the parameter
CapacityUnbloated(p) == Len(p.value) + 1

\* what the allocation leaves for the value, behind name, '=' and the NUL
Capacity(p) ==
  (IF Bloated(p) <= MAX_URI_CHAR_LEN THEN Bloated(p) ELSE MAX_URI_CHAR_LEN)
    - Len(p.name) - 1 - 1

\* An escaped character needs one more byte than it takes, and the NUL one
\* that the caller has not counted.  An empty value has length 0, which means
\* "to the end of the string", and finds no room either
uriEncodeString(v, room) ==
  /\ v # <<>>
  /\ \A i \in DOMAIN v :
       room - Written(v, i) > IF Unreserved(v[i]) THEN 0 ELSE 3
  /\ room > Written(v, Len(v) + 1)

\* an escape is its character again, every other one is itself
uriDecodeString(w) == [i \in DOMAIN w |-> IF IsEscape(w[i]) THEN Unescape(w[i]) ELSE w[i]]

EncodeValues(ps) == [i \in DOMAIN ps |-> [ps[i] EXCEPT !.value = Encoded(@)]]

\* what getCanonicalQueryParams sorts: the text "name=value"
Text(p) == p.name \o <<EQUALS>> \o p.value

StrCmpLess(s, t) ==
  \/ \E k \in 1..Len(s) :
       /\ k <= Len(t) /\ s[k] < t[k]
       /\ \A j \in 1..(k-1) : s[j] = t[j]
  \/ Len(s) < Len(t) /\ \A j \in 1..Len(s) : s[j] = t[j]

TextLess(p, q) == StrCmpLess(Text(p), Text(q))

\* insertion into a sorted list, parameter by parameter
TextOrder(ps) ==
  {ij \in (DOMAIN ps) \X (DOMAIN ps) :
     \/ TextLess(ps[ij[1]], ps[ij[2]])
     \/ ~TextLess(ps[ij[2]], ps[ij[1]]) /\ ij[1] < ij[2]}

Arranged(ps, order) == [k \in DOMAIN ps |-> ps[InOrder(DOMAIN ps, order)[k]]]

getCanonicalQueryParams(ps) ==
  LET encoded == EncodeValues(ps) IN Arranged(encoded, TextOrder(encoded))

\* a parameter must have room to be encoded, and then, with its '&', still be
\* shorter than a URL may be
Encodable(p) ==
  /\ uriEncodeString(p.value, Capacity(p))
  /\ Len(p.name) + 1 + Written(p.value, Len(p.value) + 1) + 1 < MAX_URI_CHAR_LEN

\* the bytes of a parameter, an escape taking three of them, and of a query
\* with the '?' or '&' in front of each parameter
TextLen(p) ==
  Len(p.name) + 1 + Len(p.value)
    + 2 * Cardinality({i \in DOMAIN p.value : IsEscape(p.value[i])})

QueryLen(ps) ==
  LET upTo[k \in 0..Len(ps)] ==
        IF k = 0 THEN 0 ELSE upTo[k - 1] + 1 + TextLen(ps[k])
  IN  upTo[Len(ps)]

UrlLen(u) == UrlStart[u.path] + QueryLen(u.params)

\* the credentials with the scope: a value with slashes
generateEncodedCredentials == <<8, SLASH, 8>>

\* X-Amz-Credential and the like and, with a session token, the token
AuthQuery ==
  LET credential == [name |-> <<8, DASH, 8>>, value |-> generateEncodedCredentials]
      security == [name |-> <<8, DASH, 9>>, value |-> <<EQUALS, 8>>]
  IN IF token # NoText THEN <<credential, security>> ELSE <<credential>>

-----------------------------------------------------------------------------
(* Signing.                                                                *)

IS_CANONICAL_HEADER_NAME(name) ==
  name \notin {"x-amz-security-token", "content-type", "content-length", "Authorization"}

IsCanonical(h) == IS_CANONICAL_HEADER_NAME(h.name)

\* the canonical headers, as the walk through the list meets them
CanonicalIndices(entries) == {i \in DOMAIN entries : IsCanonical(entries[i])}
WalkOrder(entries) ==
  {ij \in (DOMAIN entries) \X (DOMAIN entries) : ij[1] < ij[2]}
Walk(entries) == InOrder(CanonicalIndices(entries), WalkOrder(entries))
Canonical(entries) == [k \in DOMAIN Walk(entries) |-> entries[Walk(entries)[k]]]

generateCanonicalHeaders(entries) ==
  [k \in DOMAIN Canonical(entries) |->
     <<Canonical(entries)[k].name, Canonical(entries)[k].value>>]

generateSignedHeaders(entries) ==
  [k \in DOMAIN Canonical(entries) |-> Canonical(entries)[k].name]

\* an empty path is "/" in front of a query
getCanonicalUri(u) == IF u.path = NoText THEN "/" ELSE u.path

\* a URL of a host alone has no canonical URI: its length comes out of a
\* null pointer and does not fit any buffer
HasCanonicalUri(u) == u.path # NoText \/ u.params # <<>>

getRequestVerbString == "POST"

generateCanonicalRequestString(entries, u) ==
  [verb |-> getRequestVerbString, path |-> getCanonicalUri(u), query |-> u.params,
   headers |-> generateCanonicalHeaders(entries),
   names |-> generateSignedHeaders(entries),
   payload |-> IF body THEN "body" ELSE "empty"]

\* the time of the request, to the second
generateSignatureDateTime == [date |-> "today", time |-> "now"]
generateCredentialScope == <<generateSignatureDateTime.date, "region">>

\* key and string to sign: both depend on the day and the region
generateAwsSigV4Signature(entries, u) ==
  [signed |-> [dateTime |-> generateSignatureDateTime,
               scope |-> generateCredentialScope,
               canonical |-> generateCanonicalRequestString(entries, u)],
   signedHeaders |-> generateSignedHeaders(entries)]

\* between the scheme and the first '/', ':' or '?'; none when the URL has no
\* scheme or nothing behind it, which is refused
getRequestHost(u) == u.host

Header(name, value) == [name |-> name, value |-> value]

\* headers set before the signature is made, and after it
HeadersToSign ==
  <<Header("host", getRequestHost(url)),
    Header("X-Amz-Date", generateSignatureDateTime),
    Header("content-type", "application/json")>>
    \o (IF body THEN <<Header("content-length", "size")>> ELSE <<>>)

HeadersOfSignature ==
  <<Header("Authorization", "signature")>>
    \o (IF token # NoText THEN <<Header("x-amz-security-token", token)>> ELSE <<>>)

Signed(l, u, sig) ==
  phase' = "signed" /\ list' = l /\ url' = u /\ signature' = sig
Failed(l, u) ==
  phase' = "failed" /\ list' = l /\ url' = u /\ UNCHANGED signature

\* generateSignatureDateTime, getRequestHost and the headers come first; a
\* full list fails before the signature or after it
signAwsRequestInfo ==
  /\ phase = "built" /\ mode = "header"
  /\ LET l == SetAll(list, HeadersToSign) IN
     IF getRequestHost(url) = NoText THEN Failed(list, url)
     ELSE IF ~Fits(list, HeadersToSign) \/ ~HasCanonicalUri(url) THEN Failed(l, url)
     ELSE LET sig == generateAwsSigV4Signature(l.entries, url) IN
          IF Fits(l, HeadersOfSignature)
          THEN Signed(SetAll(l, HeadersOfSignature), url, sig)
          ELSE Failed(SetAll(l, HeadersOfSignature), url)
  /\ UNCHANGED <<mode, body, token, wire>>

\* The parameters of the signature follow those of the URL ("&..."): they have
\* to fit, each needs a '=', and a URL without any is refused.  Then all are
\* encoded and sorted
QueryAccepted(u) ==
  /\ UrlLen(u) < MAX_URI_CHAR_LEN
  /\ ~u.bare
  /\ \A i \in DOMAIN u.params : Encodable(u.params[i])

\* The result replaces the query of the URL, and the signature goes behind it.
\* The two may take what is left of the buffer behind the URL as it was, less
\* one for the '?'; more than that is cut off
Copied(u, v) ==
  (QueryLen(v.params) - 1) + SignatureLen <= MAX_URI_CHAR_LEN - UrlLen(u) - 1

\* A cut URL is not the one put together here, and the call succeeds all the
\* same.  What such a URL leads to is not followed
signAwsRequestInfoQueryParam ==
  /\ phase = "built" /\ mode = "query"
  /\ LET hostHeader == <<Header("host", getRequestHost(url))>>
         l == SetAll(list, hostHeader)
         u == [url EXCEPT !.params = @ \o AuthQuery]
         v == [url EXCEPT !.params = getCanonicalQueryParams(u.params)]
     IN IF getRequestHost(url) = NoText THEN Failed(list, url)
        ELSE IF ~Fits(list, hostHeader) THEN Failed(l, url)
        ELSE IF url.params = <<>> \/ ~QueryAccepted(u) THEN Failed(l, u)
        ELSE IF Copied(u, v) THEN Signed(l, v, generateAwsSigV4Signature(l.entries, v))
        ELSE phase' = "cut" /\ list' = l /\ url' = u /\ UNCHANGED signature
  /\ UNCHANGED <<mode, body, token, wire>>

-----------------------------------------------------------------------------
(* The life of a request.                                                  *)

Init ==
  /\ phase = "none"
  /\ mode \in {"header", "query"}
  /\ url \in [host : Hosts \cup {NoText}, path : Paths,
               params : IF mode = "query" THEN Queries ELSE {<<>>}, bare : BOOLEAN]
  /\ url.host = NoText => url.path = NoText /\ url.params = <<>>
  /\ url.params = <<>> => ~url.bare
  /\ body \in BOOLEAN /\ token \in Tokens \cup {NoText}
  /\ list = EmptyList
  /\ signature = Nothing
  /\ wire = <<>>

createRequestInfo ==
  /\ phase = "none"
  /\ list' = setRequestHeader(list, "user-agent", "agent")
  /\ phase' = "built"
  /\ UNCHANGED <<mode, url, body, token, signature, wire>>

\* a caller sets its headers one by one (putStreamCurl sets seven)
SetHeader ==
  /\ phase = "built" /\ list.next <= MaxAllocations[mode]
  /\ \E name \in CallerHeaders, value \in Values :
       list' = setRequestHeader(list, name, value)
  /\ UNCHANGED <<phase, mode, url, body, token, signature, wire>>

RemoveHeader ==
  /\ phase = "built" /\ list.next <= MaxAllocations[mode]
  /\ \E name \in CallerHeaders : list' = removeRequestHeader(list, name)
  /\ UNCHANGED <<phase, mode, url, body, token, signature, wire>>

\* every header of the list goes to curl
createCurlHeaderList ==
  /\ phase = "signed"
  /\ wire' = [i \in DOMAIN list.entries |->
                Header(list.entries[i].name, list.entries[i].value)]
  /\ phase' = "sent"
  /\ UNCHANGED <<mode, url, body, token, list, signature>>

freeRequestInfo ==
  /\ phase \in {"built", "signed", "cut", "failed", "sent"}
  /\ list' = removeRequestHeaders(list)
  /\ phase' = "freed"
  /\ UNCHANGED <<mode, url, body, token, signature, wire>>

Next ==
  \/ createRequestInfo \/ SetHeader \/ RemoveHeader
  \/ signAwsRequestInfo \/ signAwsRequestInfoQueryParam
  \/ createCurlHeaderList \/ freeRequestInfo

Spec == Init /\ [][Next]_vars

-----------------------------------------------------------------------------
(* The receiver: SigV4 by its rules.  It sorts the signed names, takes the *)
(* values it received, and sorts the parameters by name.                   *)

ValueOf(name) == wire[CHOOSE i \in DOMAIN wire : wire[i].name = name].value
SignedNames == {signature.signedHeaders[i] : i \in DOMAIN signature.signedHeaders}
NameOrder == {nm \in SignedNames \X SignedNames : Rank(nm[1]) < Rank(nm[2])}
SortedNames == InOrder(SignedNames, NameOrder)

NameThenValueLess(p, q) ==
  \/ StrCmpLess(p.name, q.name)
  \/ p.name = q.name /\ StrCmpLess(p.value, q.value)

NameThenValueOrder(ps) ==
  {ij \in (DOMAIN ps) \X (DOMAIN ps) :
     \/ NameThenValueLess(ps[ij[1]], ps[ij[2]])
     \/ ~NameThenValueLess(ps[ij[2]], ps[ij[1]]) /\ ij[1] < ij[2]}

Decoded(ps) == [i \in DOMAIN ps |-> [ps[i] EXCEPT !.value = uriDecodeString(@)]]

ReceivedQuery ==
  LET encoded == EncodeValues(Decoded(url.params))
  IN  Arranged(encoded, NameThenValueOrder(encoded))

Received ==
  [dateTime |-> IF mode = "header" THEN ValueOf("X-Amz-Date")
                                   ELSE generateSignatureDateTime,
   scope |-> <<"today", "region">>,
   canonical |->
     [verb |-> "POST",
      path |-> IF url.path = NoText THEN "/" ELSE url.path,
      query |-> ReceivedQuery,
      headers |-> [i \in DOMAIN SortedNames |->
                     <<SortedNames[i], ValueOf(SortedNames[i])>>],
      names |-> SortedNames,
      payload |-> IF body THEN "body" ELSE "empty"]]

NoDuplicates ==
  \A i, j \in DOMAIN wire : wire[i].name = wire[j].name => i = j

\* no parameter name goes on, behind another one, with a character below '='
NoShadowedName ==
  \A i, j \in DOMAIN url.params :
    LET s == url.params[i].name
        t == url.params[j].name
    IN Len(s) < Len(t) /\ SubSeq(t, 1, Len(s)) = s => t[Len(s) + 1] > EQUALS

(***************************************************************************)
(* The receiver of a signed request accepts it: what was signed is what it *)
(* puts together from the headers, the path and the parameters it received *)
(* and all that is sent of host, date and caller headers is signed.  For   *)
(* every order in which callers set and remove headers; provided no header *)
(* was set twice, and no parameter name extends another one by a character *)
(* below '=' (the code sorts the texts "name=value", not the names).       *)
(***************************************************************************)
Verifies ==
  phase = "sent" /\ NoDuplicates /\ NoShadowedName =>
    /\ signature.signed = Received
    /\ \A i \in DOMAIN wire : IS_CANONICAL_HEADER_NAME(wire[i].name) => wire[i].name \in SignedNames

\* the headers that can be sent
Listed == {list.entries[i].id : i \in DOMAIN list.entries}

(***************************************************************************)
(* No header is lost: whatever callers set, remove and have refused, a     *)
(* header that is allocated is in the list, so that freeing the request    *)
(* (removeRequestHeaders) leaves none behind.                              *)
(***************************************************************************)
NoHeaderLost == list.live \subseteq Listed

(***************************************************************************)
(* removeRequestHeader "removes a header from the headers list if exists": *)
(* the headers in the list are the headers allocated, whatever is removed. *)
(* The code frees the last header it looked at, also when it is not the    *)
(* one to remove and stays in the list.                                    *)
(***************************************************************************)
ListedAreAllocated == Listed \subseteq list.live

\* why query signing may refuse: no host, or one that does not fit a header, a
\* full list, a parameter without '=', no parameter, a URL with no room for
\* the parameters of the signature, a parameter whose encoding may be as long
\* as a URL
Unsignable ==
  \/ url.host = NoText \/ ~Fit("host", url.host)
  \/ Size(list) >= MAX_REQUEST_HEADER_COUNT
  \/ url.bare \/ Len(url.params) = Len(AuthQuery)
  \/ ~(UrlLen(url) < MAX_URI_CHAR_LEN)
  \/ \E i \in DOMAIN url.params : Bloated(url.params[i]) > MAX_URI_CHAR_LEN

(***************************************************************************)
(* Query signing has room for every other URL as long as each value has a  *)
(* character that is not escaped: the buffers of the parameters are large  *)
(* enough to encode them, and the encoded ones pass the check of their     *)
(* length.                                                                 *)
(***************************************************************************)
QuerySignable ==
  mode = "query" /\ phase = "failed" =>
    \/ Unsignable
    \/ \E i \in DOMAIN url.params :
         \A k \in DOMAIN url.params[i].value : ~Unreserved(url.params[i].value[k])

(***************************************************************************)
(* The buffer of a parameter accounts for the "max bloat for encoding": a  *)
(* value in which every character is escaped is encoded as well.  The code *)
(* wants one byte more than it counts, and refuses it.                     *)
(***************************************************************************)
MaxBloatEncodable ==
  mode = "query" /\ phase = "failed" =>
    Unsignable \/ \E i \in DOMAIN url.params : url.params[i].value = <<>>

(***************************************************************************)
(* "Copy the new params": a URL that query signing accepts holds the whole *)
(* canonical query and the signature.                                      *)
(***************************************************************************)
NewParamsCopied == phase # "cut"

(***************************************************************************)
(* The query that is signed is in the canonical order, whatever the names  *)
(* of the parameters.  The code sorts the texts "name=value".              *)
(***************************************************************************)
CanonicalOrder == phase = "sent" => url.params = ReceivedQuery

-----------------------------------------------------------------------------
(* The inductive invariant behind the theorems.                            *)

\* The list is sorted, and no two of its headers are one allocation.
ListInOrder ==
  /\ list.next \in Nat
  /\ \A i, j \in DOMAIN list.entries :
       i < j => /\ Rank(list.entries[i].name) <= Rank(list.entries[j].name)
                /\ list.entries[i].id # list.entries[j].id
  /\ \A i \in DOMAIN list.entries :
       list.entries[i].name \in HeaderNames /\ list.entries[i].id \in 0..(list.next - 1)

\* What is added behind the signature does not change what was signed.
SignatureCurrent ==
  phase \in {"signed", "sent"} =>
    /\ signature = generateAwsSigV4Signature(list.entries, url)
    /\ mode = "header" =>
         \E i \in DOMAIN list.entries :
           list.entries[i].name = "X-Amz-Date" /\ list.entries[i].value = generateSignatureDateTime

\* The parameters of a signed URL are encoded and sorted by their texts.
QueryInOrder ==
  /\ url.params \in Seq(Params)
  /\ phase \in {"signed", "sent"} =>
       /\ EncodeValues(Decoded(url.params)) = url.params
       /\ \A i, j \in DOMAIN url.params :
            i < j => ~TextLess(url.params[j], url.params[i])

WireCurrent ==
  phase = "sent" =>
    wire = [i \in DOMAIN list.entries |->
              Header(list.entries[i].name, list.entries[i].value)]

SigningInv ==
  /\ ListInOrder /\ NoHeaderLost
  /\ SignatureCurrent /\ QueryInOrder /\ WireCurrent
  /\ QuerySignable

=============================================================================
