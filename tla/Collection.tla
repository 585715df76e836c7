----------------------------- MODULE Collection -----------------------------
(***************************************************************************)
(* collection.py: from the body of an upload to the collection in it.      *)
(*                                                                         *)
(* An upload is [multipart, parts]: whether its content type and body make *)
(* the email parser see a multipart message, and the parts msg.walk meets. *)
(* A part is [field, file, payload]: its form field, whether it is_file (a *)
(* filename= in its Content-Disposition, or octet-stream as content type), *)
(* its decoded payload.  A payload is [kind, members], where "tarball"     *)
(* stands for a gzip stream of a tar archive.  A member of one is          *)
(* [name, read, json, has, collection]: whether extractfile gives a file's *)
(* content for it, nothing, as for a directory, or finds a link to a member*)
(* that is not there; and of the content, as JSON, which of the fields     *)
(* asked for it has and the collection's full name.                        *)
(***************************************************************************)
EXTENDS Integers, Sequences

PayloadKind == {"empty", "other", "truncated", "tarball"}
ManifestName == "MANIFEST.json"
Fields == {"collection_info", "namespace", "name"}

\* What becomes of an upload: its collection, CollectionValidationError, or an
\* exception that extract_manifest_from_tarball does not catch.
Found(collection) == [code |-> 200, collection |-> collection]
Invalid == [code |-> 400, collection |-> "none"]
Escapes == [code |-> 500, collection |-> "none"]

\* Mutation: the part with the checksum is taken for the file.
AnyPart(upload) ==
    {n \in DOMAIN upload.parts : upload.parts[n].payload.kind # "empty"}

\* The positions of the parts that are taken for the file, and of the members
\* that are taken for the manifest: each loop stops at the first one.
FileParts(upload) ==
    {n \in DOMAIN upload.parts :
        upload.parts[n].file /\ upload.parts[n].payload.kind # "empty"}

Manifests(payload) ==
    {n \in DOMAIN payload.members : payload.members[n].name = ManifestName}

First(positions) == CHOOSE n \in positions : \A m \in positions : n <= m

\* json.load and the fields: bytes that are no UTF text, and a value that "in"
\* cannot look into, raise neither JSONDecodeError nor TarError.
Parsed(m) ==
    CASE m.json \in {"undecodable", "scalar"} -> Escapes
      [] m.json = "malformed" \/ ~(Fields \subseteq m.has) -> Invalid
      [] OTHER -> Found(m.collection)

\* extract_manifest_from_tarball: a stream that ends early raises EOFError, and
\* a dangling link KeyError, neither of which is a TarError.
Manifest(payload) ==
    CASE payload.kind = "truncated" -> Escapes
      [] payload.kind # "tarball" \/ Manifests(payload) = {} -> Invalid
      [] OTHER -> LET m == payload.members[First(Manifests(payload))]
                  IN  CASE m.read = "content" -> Parsed(m)
                        [] m.read = "dangling" -> Escapes
                        [] OTHER -> Invalid

\* extract_tarball_from_multipart, and the manifest of what it returns.  All
\* exceptions of the former are caught.
Extract(upload) ==
    IF ~upload.multipart \/ FileParts(upload) = {} THEN Invalid
    ELSE Manifest(upload.parts[First(FileParts(upload))].payload)
=============================================================================
