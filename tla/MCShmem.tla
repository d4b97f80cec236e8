----------------------------- MODULE MCShmem --------------------------------
EXTENDS Shmem

Pages(a, b) == (0 :> a) @@ (1 :> b)

\* One page on each of two sockets.
MCLimit == Pages(1, 1)

\* The default size, and a page of one socket.
MCRequests == {Pages(0, 0), Pages(0, 1)}
=============================================================================
