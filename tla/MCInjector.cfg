SPECIFICATION Spec
CONSTANTS
  first = first
  late = late
  rest = rest
  Code = {200, 404}
  Chunk = {first, late, rest}
  HeadChunk = {first, late}
  HTMLChunk = {first}
  MaxChunks = 3
INVARIANT SameResponse
INVARIANT ShimWhenHTML
INVARIANT LengthHonest
\* A response ends.
CHECK_DEADLOCK FALSE
