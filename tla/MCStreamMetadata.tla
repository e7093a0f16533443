--------------------------- MODULE MCStreamMetadata ---------------------------
(***************************************************************************)
(* A small instance of StreamMetadata for TLC: two programs.               *)
(***************************************************************************)
EXTENDS StreamMetadata, TLC

CONSTANTS alice, bob, reader, writer

Acl(read, write) == [kind \in RoleKinds |->
    CASE kind = "readRoles" -> read [] kind = "writeRoles" -> write [] OTHER -> Null]

\* Counts of 0, one role, a list of roles, a custom property.
MCStructured == {
    [Nothing EXCEPT !.maxCount = 0, !.maxAge = 0, !.acl = Acl(reader, <<reader, writer>>)],
    [Nothing EXCEPT !.truncateBefore = 7, !.custom = 5]}

\* Bytes are written by other clients too: a 0, a single role, no JSON, and no object.
MCRaw == {[Nothing EXCEPT !.truncateBefore = 0, !.cacheControl = 3, !.acl = Acl(writer, Null)],
          NotJson, NotObject}

\* The programs are alike.
Symmetry == Permutations(Clients)
=============================================================================
