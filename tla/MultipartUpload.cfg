\* The two uploaders of multipartParallelParts, streams of up to five parts.
\* The model stops when the call has returned; Returns says it stops nowhere else.
SPECIFICATION FairSpec
CHECK_DEADLOCK FALSE
CONSTANTS
    Workers = {w1, w2}
    MaxParts = 5

    
PROPERTIES
    ImplementsAtomicUpload
    Returns
