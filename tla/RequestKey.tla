----------------------------- MODULE RequestKey -----------------------------
(* The key under which a request is cached: getHash and sendCached of        *)
(* internal/runner/request-processor.go.                                      *)
(*                                                                            *)
(* Texts are sequences of tokens.  What the code feeds to the hash, and in    *)
(* which order and without separators, is kept; maphash itself is taken to be *)
(* injective, and the decimal attempt that sendCached appends to the          *)
(* hexadecimal hash is kept apart from it.                                    *)
EXTENDS Sequences, SequencesExt

(* A request: materialized text, the files req.attach and req.saveResponseTo  *)
(* named, the workspace of its scenario, the cookies its jar has for the URL  *)
(* (a sequence of [name, value]) and the number of the attempt.               *)

CookieText(cookies) ==
  FlattenSeq([i \in DOMAIN cookies |-> cookies[i].name \o cookies[i].value])

(* Mutant: the file the response is saved to is left out. *)
HashInputNoTarget(r) ==
  r.materialized \o r.filenameFrom \o r.workspace \o CookieText(r.cookies)

HashInput(r) ==
  r.materialized \o r.filenameFrom \o r.filenameTo \o r.workspace \o CookieText(r.cookies)

ActualKey(r) == <<HashInput(r), r.retries>>
=============================================================================
