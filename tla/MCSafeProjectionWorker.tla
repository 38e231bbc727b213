----------------------- MODULE MCSafeProjectionWorker -----------------------
EXTENDS SafeProjectionWorker

CONSTANTS p1, p2, w1, w2

=============================================================================
