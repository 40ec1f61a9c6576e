------------------------------ MODULE MCListing ------------------------------
(***************************************************************************)
(* An instance of Listing for TLC.  The bytes are those of '/', 'a', 'b'.  *)
(***************************************************************************)
EXTENDS Listing

slash == <<47>>
a == <<97>>
b == <<98>>

\* "", a/, a/a, b, b/a and ba: the common prefix a/ is a key itself, b/ is not.
SomeKeys == {<<>>, a \o slash, a \o slash \o a, b, b \o slash \o a, b \o a}
\* Others write and delete three of them.
FewKeys == {<<>>, a \o slash \o a, b \o a}

SomePrefixes == {<<>>, a \o slash, b}
SomeDelimiters == {<<>>, slash}
SomeStarts == {<<>>, b}

\* A negative number, zero, one, two and more than the limit.
SomeMaxKeys == {-1, 0, 1, 2, 4}

=============================================================================
