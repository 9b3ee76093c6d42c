\* Pages of two blocks: key entries (plain or with a link), lists without
\* keys, and comments, text and tags of no interest; section names, IVs and
\* keys from two values.
CONSTANTS
  Names = {"a", "li", "span", "ul", "b"}
  Values = {1, 2}
  Pages <- MCKeyPages
SPECIFICATION Spec
INVARIANT RecordsMatchPage
PROPERTY ParseHtmlTagsEnds
