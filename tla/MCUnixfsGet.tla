---------------------------- MODULE MCUnixfsGet -----------------------------
(* Walks for TLC: the foobar fixture of src/unixfs/src/test_support.rs, a  *)
(* file of two 3-byte leaves, a directory with a bucket, a symlink and two  *)
(* one-segment files, and a file whose second block does not decode.        *)
EXTENDS UnixfsGet

V(k, f, l, n, sz) == [kind |-> k, first |-> f, last |-> l, len |-> n, size |-> sz]

(* Root file node (no data, size 7) and its leaves "fo", "ob", "ar", "\n". *)
FoobarWalk ==
    << V("File", TRUE, FALSE, 0, 7), V("File", FALSE, FALSE, 2, 7),
       V("File", FALSE, FALSE, 2, 7), V("File", FALSE, FALSE, 2, 7),
       V("File", FALSE, TRUE, 1, 7) >>

TwoLeafWalk ==
    << V("File", TRUE, FALSE, 0, 6), V("File", FALSE, FALSE, 3, 6),
       V("File", FALSE, TRUE, 3, 6) >>

DirWalk ==
    << V("Directory", FALSE, FALSE, 0, 0), V("Bucket", FALSE, FALSE, 0, 0),
       V("File", TRUE, TRUE, 1, 1), V("Symlink", FALSE, FALSE, 0, 0),
       V("File", TRUE, TRUE, 2, 2) >>

BadWalk == << V("File", TRUE, FALSE, 1, 3), V("Error", FALSE, FALSE, 0, 0) >>

(* A file of three 4-byte leaves, for a target whose usize holds less.    *)
BigWalk ==
    << V("File", TRUE, FALSE, 0, 12), V("File", FALSE, FALSE, 4, 12),
       V("File", FALSE, FALSE, 4, 12), V("File", FALSE, TRUE, 4, 12) >>

MCWalks == {FoobarWalk, TwoLeafWalk, DirWalk, BadWalk}
DirWalks == {DirWalk}
BigWalks == {BigWalk}

=============================================================================
