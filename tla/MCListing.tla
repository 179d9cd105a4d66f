------------------------------ MODULE MCListing ------------------------------
(* A bucket with directories and with names that sort around the separator.   *)
EXTENDS Listing

\* The characters - / a b, in the order of their codes.
MCSlash == 2

\* a-b, a, a/a, a/b, a/b/a
MCKeys == {<<3, 1, 4>>, <<3>>, <<3, 2, 3>>, <<3, 2, 4>>, <<3, 2, 4, 2, 3>>}

\* none, a, a/
MCPrefixes == {<<>>, <<3>>, <<3, 2>>}
MCDelimiters == {<<>>, <<MCSlash>>}

\* from the beginning, after a-b, after a/a
MCStarts == {<<>>, <<3, 1, 4>>, <<3, 2, 3>>}
=============================================================================
