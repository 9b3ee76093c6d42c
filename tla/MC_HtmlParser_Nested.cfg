\* A table of contents (a list nested in a list item), a stray </li> or an
\* <li> left open, each followed by one block of the key pages.
CONSTANTS
  Names = {"a", "li", "span", "ul", "b"}
  Values = {1, 2}
  Pages <- MCNestedPages
SPECIFICATION Spec
PROPERTY ParseHtmlTagsEnds
