CONSTANTS
  Base = {t1, t2}
  Inherit = inherit
  Domain = {0, 1}
  Pages = 2
  PageSize = 4
  MemorySize = 8
  Offset = {0, 3}
  Attribute <- ThreeAttributes
  Regions <- ByteAndWord
  NoRegions = noregions
  MaxDepth = 2
  None = None
SYMMETRY TableSymmetry
CONSTRAINT MappedBound
SPECIFICATION TranslationSpec
INVARIANTS TranslationTypeOK ParentTablesBind AlignedWordsInside RulesFollowed
