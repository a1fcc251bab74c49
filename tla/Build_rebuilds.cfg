\* Two versions of each source: the older one may have been built when the newer
\* is broken, and the other way round.
CONSTANTS
  Shaders = {sprite_vert, sprite_frag}
  Included = {sprite_vert}
  Code = code
  MaxVersion = 2

SPECIFICATION Spec

INVARIANTS
  StaleOnlyAfterUnnoticedFailure
  CompilesWithHeaders

PROPERTY RebuildRepairs
