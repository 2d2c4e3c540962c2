-------------------------------- MODULE Wire --------------------------------
(***************************************************************************)
(* What relay and agent say to each other about an artifact: the checksum  *)
(* texts, ETag and If-None-Match on both sides (handlers.rs, driver.rs),   *)
(* and the answers of get_config as fetch_once reads them.                 *)
(*                                                                         *)
(* A checksum text is its scheme, the artifact whose digest its digits     *)
(* spell (None: they are not 64 hexadecimal digits) and the case of its    *)
(* letters.  A header value is the form it is written in and the text      *)
(* inside: "absent", "star", "weak", "list", "bare", "quoted".  An Option  *)
(* is a set of at most one element.                                        *)
(***************************************************************************)
CONSTANTS
    Artifact,
    None            \* nothing held, nothing to serve

to_lowercase(text) == [scheme |-> text.scheme, digits |-> text.digits, letters |-> "lower"]

checksum_for_bytes(a) == [scheme |-> "sha256", digits |-> a, letters |-> "lower"]

\* The checksum of a snapshot; a relay with nothing to serve has an empty one.
artifact_checksum(a) ==
    IF a = None THEN [scheme |-> "none", digits |-> None, letters |-> "lower"]
    ELSE checksum_for_bytes(a)

-----------------------------------------------------------------------------
(* The relay.                                                              *)

\* Bug: the letters are left in the case of another writer.
etag_as_stored(checksum) == [checksum EXCEPT !.letters = "upper"]

etag_from_checksum(checksum) ==
    [scheme |-> "sha256", digits |-> checksum.digits, letters |-> "lower"]

quote_etag(etag) == [form |-> "quoted", text |-> etag]

Spelled(text) == text.scheme = "sha256" /\ text.digits # None

\* One strong, quoted ETag; anything else counts as no header.
parse_if_none_match(header) ==
    IF header.form = "quoted" /\ Spelled(header.text) THEN {to_lowercase(header.text)} ELSE {}

build_200_response(snapshot, etag) ==
    [status |-> 200, etag |-> quote_etag(etag), version |-> snapshot.version, body |-> snapshot.art]

build_204_response(etag) == [status |-> 204, etag |-> quote_etag(etag)]

build_304_response(etag) == [status |-> 304, etag |-> quote_etag(etag)]

build_503_response == [status |-> 503]

-----------------------------------------------------------------------------
(* The agent.                                                              *)

\* The request of an agent that has applied artifact a.
if_none_match(a) ==
    IF a = None THEN [form |-> "absent"] ELSE quote_etag(checksum_for_bytes(a))

\* Strong, quoted or not.
parse_etag_header(header) ==
    IF header.form \in {"quoted", "bare"} /\ Spelled(header.text)
    THEN {to_lowercase(header.text)} ELSE {}

\* The Response event; an ETag that cannot be read is a failed fetch.
fetch_once(r) ==
    CASE r.status = 200 -> IF parse_etag_header(r.etag) = {} THEN "TransientUnavailable"
                           ELSE "NewArtifact"
      [] r.status \in {204, 304} -> "NoUpdate"
      [] r.status = 410 -> "NeedResync"
      [] OTHER -> "TransientUnavailable"

\* verify_update: the bytes are those the ETag names.
Intact(r) == parse_etag_header(r.etag) = {checksum_for_bytes(r.body)}

=============================================================================
